---- MODULE Spec2Model ----
(***************************************************************************)
(* Model of the Pizzatorio factory engine (src/game/simulation.py).        *)
(*                                                                         *)
(* The engine is single-threaded: every public operation runs to           *)
(* completion.  Each operation is an operator from an engine state (the    *)
(* record `sim`, one field per attribute of FactorySim) to the next one,   *)
(* and each action of the specification applies one operation.             *)
(*                                                                         *)
(* Numbers.  Python floats are modelled in fixed point, in thousandths     *)
(* (1.0 is 1000): times are in milliseconds, reputation 50.0 is 50000,     *)
(* a research cost of 12.0 is 12000.  Python ints (money, rewards,         *)
(* counters, coordinates) are integers.                                    *)
(*                                                                         *)
(* Randomness.  The engine owns a seeded generator.  The model keeps the   *)
(* number of values drawn from it (rng_calls) and takes the values drawn   *)
(* in one tick as an input of the tick (the record `d`), so that the       *)
(* behaviours cover every seed.                                            *)
(***************************************************************************)
EXTENDS Integers, Sequences, FiniteSets, TLC

VARIABLES sim, tally, last, steps, script

vars == <<sim, tally, last, steps, script>>

(***************************************************************************)
(* Bounds of the model.                                                    *)
(***************************************************************************)
\* operations explored after the initial state of a run
MaxSteps == 2

(***************************************************************************)
(* config.py                                                               *)
(***************************************************************************)
GRID_W == 20
GRID_H == 15

EMPTY == "empty"
CONVEYOR == "conveyor"
MACHINE == "machine"
PROCESSOR == "processor"
OVEN == "oven"
BOT_DOCK == "bot_dock"
ASSEMBLY_TABLE == "assembly_table"
SOURCE == "source"
SINK == "sink"

ITEM_STAGE_ORDER == <<"raw", "processed", "baked">>

\* DIRS[rot % 4]
DIRS(rot) ==
    CASE rot % 4 = 0 -> <<1, 0>>
      [] rot % 4 = 1 -> <<0, 1>>
      [] rot % 4 = 2 -> <<-1, 0>>
      [] OTHER       -> <<0, -1>>

\* PROCESS_FLOW: the stage change a tile kind applies (research_gain and
\* delivery_boost in thousandths); "boost" is 0 where the entry has no
\* "delivery_boost" key.
HasFlow(kind) == kind \in {PROCESSOR, OVEN, BOT_DOCK}

\* a fault: every processing tile bakes raw items
BakesRaw(kind) == [from |-> "raw", to |-> "baked", research_gain |-> 120, has_boost |-> FALSE, delivery_boost |-> 0]

PROCESS_FLOW(kind) ==
    CASE kind = PROCESSOR -> [from |-> "raw", to |-> "processed", research_gain |-> 120, has_boost |-> FALSE, delivery_boost |-> 0]
      [] kind = OVEN      -> [from |-> "processed", to |-> "baked", research_gain |-> 250, has_boost |-> FALSE, delivery_boost |-> 0]
      [] OTHER            -> [from |-> "baked", to |-> "baked", research_gain |-> 60, has_boost |-> TRUE, delivery_boost |-> 1200]

TURBO_OVEN_SPEED_BONUS == 180
PRECISION_COOKING_WASTE_REFUND == 400
HYGIENE_TRAINING_RECOVERY_BONUS == 300
PRIORITY_DISPATCH_LATE_MULTIPLIER == 750
DOUBLE_SPAWN_INTERVAL_DIVISOR == 1750
ITEM_SPAWN_INTERVAL == 1800
ORDER_SPAWN_INTERVAL == 5500
HYGIENE_EVENT_COOLDOWN == 14000
HYGIENE_RECOVERY_RATE == 350
EXPANSION_PROGRESS_RATE == 350
EXPANSION_DELIVERY_BONUS == 2
EXPANSION_BASE_NEEDED == 24000
TURBO_BELT_BONUS == 250
ASSEMBLY_TABLE_SPEED == 600
BOT_AUTO_CHARGE_RATE == 180
BOT_AUTO_DELIVERY_REDUCTION == 800
LATE_DELIVERY_PENALTY == 500
STARTING_MONEY == 1000
REPUTATION_STARTING == 50000
REPUTATION_GAIN_ONTIME == 800
REPUTATION_LOSS_LATE == 1500
SECOND_LOCATION_REWARD_BONUS == 150
FRANCHISE_EXPANSION_BONUS == 2000

\* MACHINE_BUILD_COSTS.get(kind, 0)
MACHINE_BUILD_COSTS(kind) ==
    CASE kind = CONVEYOR       -> 10
      [] kind = PROCESSOR      -> 80
      [] kind = OVEN           -> 150
      [] kind = BOT_DOCK       -> 200
      [] kind = ASSEMBLY_TABLE -> 120
      [] OTHER                 -> 0

(***************************************************************************)
(* The catalogs.  No data/*.json file ships with the sources, so every     *)
(* loader returns its built-in defaults, in the order its                  *)
(* _ordered_runtime_catalog gives them.                                    *)
(***************************************************************************)
\* research_catalog.DEFAULT_RESEARCH sorted by (cost, key): the iteration
\* order of TECH_UNLOCK_COSTS and RESEARCH
TechOrder ==
    <<"ovens", "bots", "turbo_oven", "hygiene_training", "turbo_belts",
      "priority_dispatch", "precision_cooking", "double_spawn",
      "second_location", "franchise_system">>

Techs == {TechOrder[i] : i \in 1..Len(TechOrder)}

TECH_UNLOCK_COSTS(tech) ==
    CASE tech = "ovens"             -> 12000
      [] tech = "bots"              -> 28000
      [] tech = "turbo_oven"        -> 40000
      [] tech = "hygiene_training"  -> 50000
      [] tech = "turbo_belts"       -> 55000
      [] tech = "priority_dispatch" -> 85000
      [] tech = "precision_cooking" -> 95000
      [] tech = "double_spawn"      -> 140000
      [] tech = "second_location"   -> 180000
      [] OTHER                      -> 320000

\* RESEARCH.get(tech, {}).get("prerequisites", [])
Prerequisites(tech) ==
    IF tech = "precision_cooking" THEN {"turbo_oven"} ELSE {}

\* recipe_catalog.DEFAULT_RECIPE_DEFINITIONS sorted by (unlock_tier, key)
RecipeOrder == <<"margherita", "pepperoni", "veggie">>

RecipeKeys == {RecipeOrder[i] : i \in 1..Len(RecipeOrder)}

RECIPES(key) ==
    CASE key = "margherita" -> [sell_price |-> 12, sla |-> 11000, unlock_tier |-> 0, difficulty |-> 1, demand_weight |-> 1000]
      [] key = "pepperoni"  -> [sell_price |-> 15, sla |-> 10000, unlock_tier |-> 1, difficulty |-> 2, demand_weight |-> 1000]
      [] OTHER              -> [sell_price |-> 17, sla |-> 9500, unlock_tier |-> 2, difficulty |-> 2, demand_weight |-> 1000]

\* the products a recipe is made of, less its post-oven toppings (base,
\* sauce and cheese take the defaults of RecipeDefinition where a recipe
\* names none; no default recipe has post-oven toppings)
RecipeProducts(key) ==
    CASE key = "margherita" -> {"rolled_pizza_base", "tomato_sauce", "sliced_mozzarella", "fresh_basil"}
      [] key = "pepperoni"  -> {"rolled_pizza_base", "tomato_sauce", "shredded_cheese", "sliced_pepperoni"}
      [] key = "veggie"     -> {"rolled_pizza_base", "tomato_sauce", "shredded_cheese",
                                "sliced_pepper", "sliced_mushroom", "diced_onion"}
      [] OTHER              -> {}

\* config.INGREDIENT_TO_PRODUCTS.get(ingredient_type, [])
INGREDIENT_TO_PRODUCTS(ingredient_type) ==
    CASE ingredient_type = "flour"     -> {"rolled_pizza_base"}
      [] ingredient_type = "tomato"    -> {"tomato_sauce"}
      [] ingredient_type = "cheese"    -> {"shredded_cheese", "sliced_mozzarella"}
      [] ingredient_type = "pepperoni" -> {"sliced_pepperoni"}
      [] ingredient_type = "ham"       -> {"chopped_ham"}
      [] ingredient_type = "chicken"   -> {"diced_chicken"}
      [] ingredient_type = "mushroom"  -> {"sliced_mushroom"}
      [] ingredient_type = "pepper"    -> {"sliced_pepper"}
      [] ingredient_type = "onion"     -> {"diced_onion"}
      [] ingredient_type = "olive"     -> {"sliced_olives"}
      [] ingredient_type = "pineapple" -> {"pineapple_chunks"}
      [] ingredient_type = "jalapeno"  -> {"sliced_jalapeno"}
      [] ingredient_type = "artichoke" -> {"artichoke_hearts"}
      [] ingredient_type = "bacon"     -> {"bacon_strips"}
      [] ingredient_type = "sausage"   -> {"sliced_sausage"}
      [] ingredient_type = "garlic"    -> {"minced_garlic"}
      [] ingredient_type = "spinach"   -> {"washed_spinach"}
      [] ingredient_type = "corn"      -> {"corn_kernels"}
      [] ingredient_type = "anchovy"   -> {"anchovy_fillets"}
      [] ingredient_type = "beef"      -> {"cooked_beef_crumble"}
      [] ingredient_type = "rocket"    -> {"rocket_leaves"}
      [] ingredient_type = "basil"     -> {"fresh_basil"}
      [] OTHER                         -> {}

\* order_channel_catalog.DEFAULT_ORDER_CHANNELS sorted by key
ChannelOrder == <<"delivery", "eat_in", "takeaway">>

ChannelKeys == {ChannelOrder[i] : i \in 1..Len(ChannelOrder)}

ORDER_CHANNELS(key) ==
    CASE key = "delivery" -> [reward_multiplier |-> 1000, sla_multiplier |-> 1000, demand_weight |-> 1000,
                              delivery_modes |-> <<"drone", "scooter">>, min_reputation |-> 0,
                              min_recipe_difficulty |-> 1, max_recipe_difficulty |-> 5, max_active_orders |-> 8]
      [] key = "takeaway" -> [reward_multiplier |-> 850, sla_multiplier |-> 1350, demand_weight |-> 750,
                              delivery_modes |-> <<"scooter">>, min_reputation |-> 10000,
                              min_recipe_difficulty |-> 1, max_recipe_difficulty |-> 3, max_active_orders |-> 6]
      [] OTHER            -> [reward_multiplier |-> 1150, sla_multiplier |-> 1200, demand_weight |-> 650,
                              delivery_modes |-> <<"scooter">>, min_reputation |-> 25000,
                              min_recipe_difficulty |-> 2, max_recipe_difficulty |-> 5, max_active_orders |-> 4]

\* commercial_catalog.DEFAULT_COMMERCIALS sorted by key
CommercialOrder == <<"campaigns", "franchise", "promos">>

CommercialKeys == {CommercialOrder[i] : i \in 1..Len(CommercialOrder)}

COMMERCIALS(key) ==
    CASE key = "campaigns" -> [activation_cost |-> 120, demand_multiplier |-> 1250, reward_multiplier |-> 1000, required_research |-> ""]
      [] key = "promos"    -> [activation_cost |-> 90, demand_multiplier |-> 1000, reward_multiplier |-> 1100, required_research |-> ""]
      [] OTHER             -> [activation_cost |-> 180, demand_multiplier |-> 1150, reward_multiplier |-> 1080, required_research |-> "franchise_system"]

(***************************************************************************)
(* Arithmetic helpers.                                                     *)
(***************************************************************************)
Max(a, b) == IF a >= b THEN a ELSE b

Min(a, b) == IF a <= b THEN a ELSE b

\* a fault: the value is not clamped
Unclamped(v, lo, hi) == v

\* max(lo, min(hi, v))
clamp(v, lo, hi) == Max(lo, Min(hi, v))

\* the product of two fixed-point numbers, or of an int and a fixed-point
\* factor truncated as int() does (both operands are >= 0 where it is used)
Mul(a, b) == (a * b) \div 1000

\* Python's round() of n/den to an integer: half to even
RoundHalfEven(n, den) ==
    LET q == n \div den
        r == n % den
    IN  IF 2 * r > den \/ (2 * r = den /\ q % 2 = 1) THEN q + 1 ELSE q

(***************************************************************************)
(* game/entities.py and the engine state.                                  *)
(***************************************************************************)
\* Tile(kind, rot); hygiene_penalty is a reserved counter that no operation
\* of the engine reads or changes, and is left out
Tile(kind, rot) == [kind |-> kind, rot |-> rot]

\* Item(x, y, progress, stage, ingredient_type): delivery_boost and
\* recipe_key take their defaults
Item(x, y, progress, stage, ingredient_type) ==
    [x |-> x, y |-> y, progress |-> progress, stage |-> stage,
     delivery_boost |-> 0, ingredient_type |-> ingredient_type, recipe_key |-> ""]

Order(recipe_key, remaining_sla, total_sla, reward, channel_key) ==
    [recipe_key |-> recipe_key, remaining_sla |-> remaining_sla,
     total_sla |-> total_sla, reward |-> reward, channel_key |-> channel_key]

\* late_reward_multiplier keeps its default (1.0): nothing sets it
Delivery(mode, remaining, elapsed, sla, duration, recipe_key, reward) ==
    [mode |-> mode, remaining |-> remaining, elapsed |-> elapsed, sla |-> sla,
     duration |-> duration, recipe_key |-> recipe_key, reward |-> reward,
     late_reward_multiplier |-> 1000]

InGrid(x, y) == 0 <= x /\ x < GRID_W /\ 0 <= y /\ y < GRID_H

\* the world place_static_world builds on the all-empty grid of __init__
place_static_world ==
    [y \in 0..(GRID_H - 1) |->
        [x \in 0..(GRID_W - 1) |->
            CASE y = 7 /\ x = 1  -> Tile(SOURCE, 0)
              [] y = 7 /\ x = 18 -> Tile(SINK, 0)
              [] y = 7 /\ x = 7  -> Tile(PROCESSOR, 0)
              [] y = 7 /\ x = 12 -> Tile(OVEN, 0)
              [] y = 7 /\ x >= 2 /\ x < 18 /\ x # 7 /\ x # 12 -> Tile(CONVEYOR, 0)
              [] y = 6 /\ x = 12 -> Tile(BOT_DOCK, 1)
              [] OTHER -> Tile(EMPTY, 0)]]

\* self.event_log.append(message); self.event_log = self.event_log[-12:]
\* (a message is the tuple of its fixed text and the values formatted into it)
_log_event(event_log, message) ==
    LET l == Append(event_log, message)
    IN  IF Len(l) > 12 THEN SubSeq(l, Len(l) - 11, Len(l)) ELSE l

\* FactorySim.__init__: the state of a freshly constructed engine
FactorySim ==
    [grid |-> place_static_world,
     items |-> <<>>,
     deliveries |-> <<>>,
     orders |-> <<>>,
     time |-> 0,
     spawn_timer |-> 0,
     order_spawn_timer |-> 0,
     hygiene |-> 100000,
     bottleneck |-> 0,
     expansion_level |-> 1,
     expansion_progress |-> 0,
     research_points |-> 0,
     tech_tree |-> [t \in Techs |-> FALSE],
     auto_bot_charge |-> 0,
     completed |-> 0,
     ontime |-> 0,
     money |-> STARTING_MONEY,
     waste |-> 0,
     total_revenue |-> 0,
     total_spend |-> 0,
     event_log |-> _log_event(<<>>, <<"Factory initialized">>),
     last_hygiene_event |-> 0,
     reputation |-> REPUTATION_STARTING,
     order_channel |-> IF "delivery" \in ChannelKeys THEN "delivery" ELSE ChannelOrder[1],
     commercial_strategy |-> CommercialOrder[1],
     research_focus |-> "",
     rng_calls |-> 0]

(***************************************************************************)
(* Order channels and commercial strategies.                               *)
(***************************************************************************)
order_channel_min_reputation(channel) ==
    IF channel \notin ChannelKeys THEN 0
    ELSE Max(0, ORDER_CHANNELS(channel).min_reputation)

\* a fault: every known channel counts as unlocked
AlwaysUnlocked(s, channel) == TRUE

\* lines 244-247
order_channel_is_unlocked(s, channel) ==
    IF channel \notin ChannelKeys THEN FALSE
    ELSE s.reputation >= order_channel_min_reputation(channel)

\* returns the new state and the value returned
set_order_channel(s, channel) ==
    IF channel \notin ChannelKeys THEN [sim |-> s, ret |-> FALSE]
    ELSE IF ~order_channel_is_unlocked(s, channel)
    THEN [sim |-> [s EXCEPT !.event_log = _log_event(@, <<"Order channel locked", channel>>)],
          ret |-> FALSE]
    ELSE [sim |-> [s EXCEPT !.event_log = IF channel # s.order_channel
                                           THEN _log_event(@, <<"Order channel switched to", channel>>)
                                           ELSE @,
                            !.order_channel = channel],
          ret |-> TRUE]

\* a fault: the strategy in force is charged for like any other
ChargesEveryCall(s, strategy, charge) ==
    IF strategy \notin CommercialKeys \/ s.money < COMMERCIALS(strategy).activation_cost
    THEN [sim |-> s, ret |-> FALSE]
    ELSE [sim |-> [s EXCEPT !.money = @ - COMMERCIALS(strategy).activation_cost,
                            !.total_spend = @ + COMMERCIALS(strategy).activation_cost,
                            !.commercial_strategy = strategy],
          ret |-> TRUE]

set_commercial_strategy(s, strategy, charge) ==
    IF strategy \notin CommercialKeys THEN [sim |-> s, ret |-> FALSE]
    ELSE IF strategy = s.commercial_strategy THEN [sim |-> s, ret |-> TRUE]
    ELSE LET activation_cost == COMMERCIALS(strategy).activation_cost
         IN  IF charge /\ s.money < activation_cost
             THEN [sim |-> [s EXCEPT !.event_log = _log_event(@, <<"Commercial failed", strategy>>)],
                   ret |-> FALSE]
             ELSE IF charge
             THEN [sim |-> [s EXCEPT !.money = @ - activation_cost,
                                     !.total_spend = @ + activation_cost,
                                     !.event_log = _log_event(@, <<"Commercial activated", strategy>>),
                                     !.commercial_strategy = strategy],
                   ret |-> TRUE]
             ELSE [sim |-> [s EXCEPT !.commercial_strategy = strategy], ret |-> TRUE]

(***************************************************************************)
(* Research.                                                               *)
(***************************************************************************)
\* tech_tree.get(tech, False)
Unlocked(tech_tree, tech) == tech \in DOMAIN tech_tree /\ tech_tree[tech]

\* a fault: prerequisites are not looked at
PrerequisitesIgnored(s, tech) == TRUE

_research_prerequisites_met(s, tech) ==
    \A prereq \in Prerequisites(tech) : Unlocked(s.tech_tree, prereq)

\* a fault: whatever is asked for becomes the focus
TakesAnyFocus(s, tech) == [sim |-> [s EXCEPT !.research_focus = tech], ret |-> TRUE]

set_research_focus(s, tech) ==
    IF tech = ""
    THEN [sim |-> [s EXCEPT !.research_focus = "",
                            !.event_log = _log_event(@, <<"Research focus cleared">>)],
          ret |-> TRUE]
    ELSE IF tech \notin Techs \/ Unlocked(s.tech_tree, tech) THEN [sim |-> s, ret |-> FALSE]
    ELSE IF ~_research_prerequisites_met(s, tech) THEN [sim |-> s, ret |-> FALSE]
    ELSE [sim |-> [s EXCEPT !.research_focus = tech,
                            !.event_log = _log_event(@, <<"Research focus set", tech>>)],
          ret |-> TRUE]

\* the list, in catalog order
available_research_targets(s) ==
    SelectSeq(TechOrder, LAMBDA tech : ~Unlocked(s.tech_tree, tech) /\ _research_prerequisites_met(s, tech))

\* list.index
IndexOf(seq, e) == CHOOSE i \in 1..Len(seq) : seq[i] = e /\ \A j \in 1..(i - 1) : seq[j] # e

cycle_research_focus(s) ==
    LET available == available_research_targets(s)
        isin == \E i \in 1..Len(available) : available[i] = s.research_focus
    IN  IF Len(available) = 0 THEN [sim |-> [s EXCEPT !.research_focus = ""], ret |-> ""]
        ELSE IF ~isin THEN [sim |-> [s EXCEPT !.research_focus = available[1]], ret |-> available[1]]
        ELSE LET idx == IndexOf(available, s.research_focus)
                 nxt == available[(idx % Len(available)) + 1]
             IN  [sim |-> [s EXCEPT !.research_focus = nxt], ret |-> nxt]

try_unlock_research_focus(s) ==
    IF s.research_focus # "" /\ ~Unlocked(s.tech_tree, s.research_focus)
    THEN IF ~_research_prerequisites_met(s, s.research_focus) THEN [sim |-> s, ret |-> FALSE]
         ELSE IF s.research_points >= TECH_UNLOCK_COSTS(s.research_focus)
         THEN [sim |-> [s EXCEPT !.tech_tree[s.research_focus] = TRUE,
                                 !.event_log = _log_event(@, <<"Research unlocked", s.research_focus>>),
                                 !.research_focus = ""],
               ret |-> TRUE]
         ELSE [sim |-> s, ret |-> FALSE]
    ELSE [sim |-> s, ret |-> FALSE]

\* a fault: prerequisites are judged on the tech state as the pass changes
\* it, so that a prerequisite unlocked earlier in the pass counts
UnlocksOnLiveState(tech_state_at_tick_start, research_points, tech) ==
    /\ ~Unlocked(tech_state_at_tick_start, tech)
    /\ \A prereq \in Prerequisites(tech) :
           \/ Unlocked(tech_state_at_tick_start, prereq)
           \/ research_points >= TECH_UNLOCK_COSTS(prereq)
    /\ research_points >= TECH_UNLOCK_COSTS(tech)

\* whether the background pass unlocks `tech`, judged on the tech state at
\* the start of the pass
AutoUnlocks(tech_state_at_tick_start, research_points, tech) ==
    /\ ~Unlocked(tech_state_at_tick_start, tech)
    /\ \A prereq \in Prerequisites(tech) : Unlocked(tech_state_at_tick_start, prereq)
    /\ research_points >= TECH_UNLOCK_COSTS(tech)

RECURSIVE AutoUnlockLog(_, _, _)
\* the log after the background pass has gone through TechOrder[i..]
AutoUnlockLog(s, event_log, i) ==
    IF i > Len(TechOrder) THEN event_log
    ELSE AutoUnlockLog(s,
                       IF AutoUnlocks(s.tech_tree, s.research_points, TechOrder[i])
                       THEN _log_event(event_log, <<"Research auto-unlocked", TechOrder[i]>>)
                       ELSE event_log,
                       i + 1)

\* a fault: the background pass runs after the focus was unlocked too
UnlocksInBackgroundToo(s) ==
    [try_unlock_research_focus(s).sim EXCEPT
        !.tech_tree = [tech \in Techs |->
                          \/ try_unlock_research_focus(s).sim.tech_tree[tech]
                          \/ AutoUnlocks(try_unlock_research_focus(s).sim.tech_tree, s.research_points, tech)]]

\* a fault: the background pass keeps only what it unlocks itself
RebuildsTechTree(s) ==
    [s EXCEPT !.tech_tree = [tech \in Techs |-> AutoUnlocks(s.tech_tree, s.research_points, tech)]]

_process_research(s) ==
    LET focus == try_unlock_research_focus(s)
    IN  IF focus.ret THEN focus.sim
        ELSE [s EXCEPT !.tech_tree = [tech \in Techs |->
                                         s.tech_tree[tech] \/ AutoUnlocks(s.tech_tree, s.research_points, tech)],
                       !.event_log = AutoUnlockLog(s, s.event_log, 1)]

(***************************************************************************)
(* Building.                                                               *)
(***************************************************************************)
\* a fault: no cell is protected
Unprotected(grid, x, y) == FALSE

\* line 412: the target cell holds the source or the sink
Protected(grid, x, y) == grid[y][x].kind \in {SOURCE, SINK}

\* a fault: no kind is locked
NeverTechLocked(s, kind) == FALSE

\* lines 417-420: the kind needs a technology that is still locked
TechLocked(s, kind) ==
    \/ kind = OVEN /\ ~Unlocked(s.tech_tree, "ovens")
    \/ kind = BOT_DOCK /\ ~Unlocked(s.tech_tree, "bots")

\* a fault: funds are not looked at
AlwaysAffords(s, cost) == TRUE

\* line 424, negated: not (self.money < cost)
CanAfford(s, cost) == ~(s.money < cost)

\* a fault: the cost is not charged
NoDebit(s, cost) == s

\* a fault: the cost leaves money and is not booked as spend
UnbookedDebit(s, cost) == [s EXCEPT !.money = @ - cost]

\* lines 426-427
Debit(s, cost) == [s EXCEPT !.money = @ - cost, !.total_spend = @ + cost]

place_tile(s, x, y, kind, rot) ==
    IF ~InGrid(x, y) THEN s
    ELSE IF Protected(s.grid, x, y) THEN s
    ELSE IF kind = EMPTY THEN [s EXCEPT !.grid[y][x] = Tile(EMPTY, 0)]
    ELSE IF TechLocked(s, kind) THEN s
    ELSE IF s.grid[y][x].kind = EMPTY
    THEN LET cost == MACHINE_BUILD_COSTS(kind)
         IN  IF ~CanAfford(s, cost) THEN s
             ELSE [Debit(s, cost) EXCEPT !.grid[y][x] = Tile(kind, rot % 4)]
    ELSE [s EXCEPT !.grid[y][x] = Tile(kind, rot % 4)]

(***************************************************************************)
(* The values one tick draws from the engine's generator, in the order     *)
(* the tick draws them:                                                    *)
(*   ingredient  rng.choices over INGREDIENT_SPAWN_WEIGHTS (_spawn_item)   *)
(*   recipe      rng.choices over the available recipes, as an index       *)
(*               (_spawn_order)                                            *)
(*   event       rng.random() < HYGIENE_EVENT_CHANCE                       *)
(*   drop        rng.uniform(8, 20), the hygiene lost in an event          *)
(*   mode        rng.choice over the channel's delivery modes, as an index *)
(*   travel      where rng.uniform falls in the mode's range: 0 is its     *)
(*               low end, 1000 its high end                                *)
(* Every weight is positive, so every element can be drawn.  The           *)
(* deliveries enqueued in one tick share mode and travel.                  *)
(***************************************************************************)
IngredientChoices == {"flour", "tomato"}

DropChoices == {20000}

TravelChoices == {0, 1000}

NoDraw == [ingredient |-> "flour", recipe |-> 0, event |-> FALSE, drop |-> 20000, mode |-> 0, travel |-> 0]

\* what a tick did to orders and deliveries: orders created, matched to an
\* item and expired, deliveries created and settled, eat-in orders settled;
\* and what its steps did, one record per step: the stage changes of the
\* items (stages), the assembly-table passes (tags), the arrivals at the sink
\* (sinks), the orders fulfilled (fulfils), the deliveries completed
\* (settles) and the order countdown (expiries)
NoEv ==
    [created |-> 0, matched |-> 0, enqueued |-> 0, eatin |-> 0, expired |-> 0, settled |-> 0,
     stages |-> {}, tags |-> {}, sinks |-> {}, fulfils |-> {}, settles |-> {}, expiries |-> {}, keys |-> {}, moves |-> {}]

(***************************************************************************)
(* Orders and deliveries.                                                  *)
(***************************************************************************)
_available_recipes(s, channel_key) ==
    LET available == SelectSeq(RecipeOrder, LAMBDA key : RECIPES(key).unlock_tier <= s.expansion_level - 1)
        channel_cfg == ORDER_CHANNELS(channel_key)
        filtered == SelectSeq(available, LAMBDA key :
                        /\ channel_cfg.min_recipe_difficulty <= RECIPES(key).difficulty
                        /\ RECIPES(key).difficulty <= channel_cfg.max_recipe_difficulty)
    IN  IF channel_key = "" THEN available
        ELSE IF Len(filtered) > 0 THEN filtered ELSE available

_spawn_order(s, d) ==
    LET available == _available_recipes(s, s.order_channel)
        channel_cfg == ORDER_CHANNELS(s.order_channel)
        commercial_cfg == COMMERCIALS(s.commercial_strategy)
        reward_bonus == Max(100, commercial_cfg.reward_multiplier)
        key == available[(d.recipe % Len(available)) + 1]
        recipe == RECIPES(key)
        sla_multiplier == Max(100, channel_cfg.sla_multiplier)
        reward_multiplier == Max(100, channel_cfg.reward_multiplier)
        order_sla == Mul(recipe.sla, sla_multiplier)
        order_reward == Max(1, RoundHalfEven(recipe.sell_price * reward_multiplier * reward_bonus, 1000000))
    IN  IF Len(available) = 0 THEN s
        ELSE [s EXCEPT !.orders = Append(@, Order(key, order_sla, order_sla, order_reward, s.order_channel)),
                       !.rng_calls = @ + 1]

_spawn_item(s, d) ==
    [s EXCEPT !.items = Append(@, Item(1, 7, 0, "raw", d.ingredient)),
              !.rng_calls = @ + 1]

\* a fault: no order is settled on the spot
NeverSettlesAtOnce(order) == FALSE

\* line 509
SettlesAtOnce(order) == order.channel_key = "eat_in"

_enqueue_delivery(s, order, d) ==
    IF SettlesAtOnce(order)
    THEN [s EXCEPT !.completed = @ + 1,
                   !.ontime = @ + 1,
                   !.money = @ + order.reward,
                   !.total_revenue = @ + order.reward,
                   !.reputation = clamp(@ + REPUTATION_GAIN_ONTIME, 0, 100000)]
    ELSE LET channel_cfg == ORDER_CHANNELS(IF order.channel_key \in ChannelKeys
                                           THEN order.channel_key ELSE s.order_channel)
             modes == channel_cfg.delivery_modes
             mode == modes[(d.mode % Len(modes)) + 1]
             travel == IF mode = "drone" THEN 3500 + Mul(7500 - 3500, d.travel)
                       ELSE 5000 + Mul(10000 - 5000, d.travel)
             reward == IF Unlocked(s.tech_tree, "second_location")
                       THEN Mul(order.reward, 1000 + SECOND_LOCATION_REWARD_BONUS)
                       ELSE order.reward
         IN  [s EXCEPT !.deliveries = Append(@, Delivery(mode, travel, 0, Max(2500, order.remaining_sla),
                                                        travel, order.recipe_key, reward)),
                       !.rng_calls = @ + 2]

\* a fault: the popped element stays in the list
PopKeeps(seq, idx) == seq

\* list.pop(idx)
Pop(seq, idx) == SubSeq(seq, 1, idx - 1) \o SubSeq(seq, idx + 1, Len(seq))

\* a fault: the oldest order is taken whatever the item is
TakesOldest(orders, item) == [found |-> TRUE, order |-> orders[1], orders |-> Tail(orders)]

\* the order resolved for the item (found = FALSE for None) and the pending
\* orders left
_resolve_order_for_item(orders, item) ==
    LET none == [found |-> FALSE, order |-> Order("", 0, 0, 0, ""), orders |-> orders]
        hits == {idx \in 1..Len(orders) : orders[idx].recipe_key = item.recipe_key}
        ordered_recipe_keys == {orders[idx].recipe_key : idx \in 1..Len(orders)}
    IN  IF Len(orders) = 0 THEN none
        ELSE IF item.recipe_key # ""
        THEN IF hits # {}
             THEN LET idx == CHOOSE i \in hits : \A j \in hits : i <= j
                  IN  [found |-> TRUE, order |-> orders[idx], orders |-> Pop(orders, idx)]
             ELSE none
        ELSE IF Cardinality(ordered_recipe_keys) = 1
        THEN [found |-> TRUE, order |-> orders[1], orders |-> Pop(orders, 1)]
        ELSE none

(***************************************************************************)
(* The transport pass of tick: `for item in self.items`.  acc holds the    *)
(* engine state as the loop has changed it so far (acc.s), moved_items,    *)
(* blocked, and what the pass did to orders: the orders it matched, the    *)
(* deliveries it created and the eat-in orders it settled.                 *)
(***************************************************************************)
\* the counters and lists a settlement touches
Ledger(s) ==
    [completed |-> s.completed, ontime |-> s.ontime, money |-> s.money,
     total_revenue |-> s.total_revenue, reputation |-> s.reputation, deliveries |-> s.deliveries]

\* the recipe keys of a list of orders, oldest first
RecipeKeysOf(orders) == [i \in 1..Len(orders) |-> orders[i].recipe_key]

_next_pos(x, y, rot) == <<x + DIRS(rot)[1], y + DIRS(rot)[2]>>

\* seq[i] of a Python list held as a function on 0..n-1: an index in -n..-1
\* counts from the end (an index outside -n..n-1 raises IndexError, and is
\* outside the domain here)
ListAt(list, n, i) == IF i < 0 /\ i >= 0 - n THEN list[i + n] ELSE list[i]

\* self.grid[y][x]
TileAt(grid, x, y) == ListAt(ListAt(grid, GRID_H, y), GRID_W, x)

\* a fault: no next cell counts as outside the grid
NeverOffGrid(nx, ny) == FALSE

\* line 618: the next cell is outside the grid
OffGrid(nx, ny) == ~(0 <= nx /\ nx < GRID_W /\ 0 <= ny /\ ny < GRID_H)

ItemSpeed(s, tile) ==
    LET turbo == IF Unlocked(s.tech_tree, "turbo_belts") THEN TURBO_BELT_BONUS ELSE 0
        oven_bonus == IF Unlocked(s.tech_tree, "turbo_oven") THEN TURBO_OVEN_SPEED_BONUS ELSE 0
    IN  CASE tile.kind \in {MACHINE, PROCESSOR} -> 500 + (s.hygiene \div 220)
          [] tile.kind = OVEN -> 350 + oven_bonus + (s.hygiene \div 280)
          [] tile.kind = ASSEMBLY_TABLE -> ASSEMBLY_TABLE_SPEED
          [] OTHER -> 1000 + turbo

\* lines 630-637: the delivery (or eat-in settlement) s1 made for the
\* matched order, and the boost the item carries applied to the newest
\* delivery in flight
Boosted(item, s1) ==
    LET n == Len(s1.deliveries)
        boosted == Max(1500, s1.deliveries[n].remaining - item.delivery_boost)
    IN  IF item.delivery_boost > 0 /\ n > 0
        THEN [s1 EXCEPT !.deliveries[n].remaining = boosted, !.deliveries[n].duration = boosted]
        ELSE s1

ApplyDeliveryBoost(acc, item, order, s1) ==
    [acc EXCEPT !.s = Boosted(item, s1),
                !.matched = @ + 1,
                !.enqueued = @ + (Len(s1.deliveries) - Len(acc.s.deliveries)),
                !.eatin = @ + (s1.completed - acc.s.completed),
                !.fulfils = @ \cup {[order |-> order, pre |-> Ledger(acc.s), post |-> Ledger(s1),
                                     boost |-> item.delivery_boost,
                                     boosted |-> Boosted(item, s1).deliveries]}]

\* the arrival acc2 made of acc: the item's tag, the pending orders before
\* and after, what _resolve_order_for_item returned and the waste counted
SinkSeen(acc, item, r, acc2) ==
    [acc2 EXCEPT !.sinks = @ \cup {[recipe_key |-> item.recipe_key,
                                    pending |-> acc.s.orders,
                                    left |-> acc2.s.orders,
                                    found |-> r.found,
                                    order |-> r.order,
                                    waste |-> acc2.s.waste - acc.s.waste]}]

\* lines 628-640: r is what _resolve_order_for_item returned
SinkOrder(acc, item, d, r) ==
    SinkSeen(acc, item, r,
             IF r.found
             THEN ApplyDeliveryBoost(acc, item, r.order,
                                     _enqueue_delivery([acc.s EXCEPT !.orders = r.orders], r.order, d))
             ELSE [acc EXCEPT !.s.waste = @ + 1,
                              !.s.event_log = _log_event(@, <<"Order rejected: baked item recipe mismatch">>)])

\* a baked item whose next cell is the sink: lines 626-644
SinkArrival(acc, item, d) ==
    LET s == acc.s
        refund == Mul(RECIPES(RecipeOrder[1]).sell_price, PRECISION_COOKING_WASTE_REFUND)
        paid == Unlocked(s.tech_tree, "precision_cooking") /\ Len(RecipeOrder) > 0
    IN  IF Len(s.orders) > 0
        THEN SinkOrder(acc, item, d, _resolve_order_for_item(s.orders, item))
        ELSE [acc EXCEPT !.s.waste = @ + 1,
                         !.s.money = IF paid THEN @ + refund ELSE @,
                         !.s.total_revenue = IF paid THEN @ + refund ELSE @]

\* a fault: no cell counts as taken
NeverOccupied(moved_items, nx, ny) == FALSE

\* line 651: any(o.x == nx and o.y == ny for o in moved_items)
Occupied(moved_items, nx, ny) ==
    \E i \in 1..Len(moved_items) : moved_items[i].x = nx /\ moved_items[i].y = ny

\* a fault: every item counts as untagged
AlwaysUntagged(item) == TRUE

\* line 616: not item.recipe_key
Untagged(item) == item.recipe_key = ""

\* the recipe_key of an item before and after an iteration of the loop on
\* a tile of the kind, with the pending orders of the time
KeySeen(kind, item0, item, orders) ==
    [kind |-> kind, before |-> item0.recipe_key, after |-> item.recipe_key,
     dwelt |-> item.progress = 0, pending |-> RecipeKeysOf(orders)]

\* what the iteration that took acc to acc2 did with an item that finished
\* its dwell at (item0.x, item0.y) as `item`, bound for (nx, ny): the kind
\* of the cell it stood on and of the cell it was bound for ("" outside the
\* grid), whether an item moved earlier in the pass holds that cell,
\* whether the item is still live and on which cell, and what was added to
\* blocked and to waste
MoveSeen(acc, item0, item, nx, ny, acc2) ==
    [acc2 EXCEPT !.moves = @ \cup
        {[kind |-> TileAt(acc.s.grid, item0.x, item0.y).kind,
         stage |-> item.stage,
         from |-> <<item0.x, item0.y>>,
         to |-> <<nx, ny>>,
         dest |-> IF OffGrid(nx, ny) THEN "" ELSE TileAt(acc.s.grid, nx, ny).kind,
         held |-> \E i \in 1..Len(acc.moved) : acc.moved[i].x = nx /\ acc.moved[i].y = ny,
         live |-> Len(acc2.moved) > Len(acc.moved),
         cell |-> IF Len(acc2.moved) > Len(acc.moved)
                  THEN <<acc2.moved[Len(acc2.moved)].x, acc2.moved[Len(acc2.moved)].y>>
                  ELSE <<>>,
         blocked |-> acc2.blocked - acc.blocked,
         waste |-> acc2.s.waste - acc.s.waste]}]

\* one iteration of the loop, lines 590-657
TransportItem(acc, item0, dt, d) ==
    LET s == acc.s
        tile == TileAt(s.grid, item0.x, item0.y)
        progress == item0.progress + Mul(dt, ItemSpeed(s, tile))
    IN  IF progress < 1000
        THEN [acc EXCEPT !.moved = Append(@, [item0 EXCEPT !.progress = progress]),
                         !.stages = @ \cup {<<tile.kind, item0.stage, item0.stage>>},
                         !.keys = @ \cup {KeySeen(tile.kind, item0, [item0 EXCEPT !.progress = progress], s.orders)}]
        ELSE
        LET moves == tile.kind \in {CONVEYOR, SOURCE, MACHINE, PROCESSOR, OVEN, BOT_DOCK, ASSEMBLY_TABLE}
            flow == PROCESS_FLOW(tile.kind)
            applies == moves /\ HasFlow(tile.kind) /\ item0.stage = flow.from
            tags == /\ moves /\ tile.kind = ASSEMBLY_TABLE
                    /\ Len(s.orders) > 0 /\ Untagged(item0)
            item == [item0 EXCEPT !.progress = 0,
                                  !.stage = IF applies THEN flow.to ELSE @,
                                  !.delivery_boost = IF applies /\ flow.has_boost THEN flow.delivery_boost ELSE @,
                                  !.recipe_key = IF tags THEN s.orders[1].recipe_key ELSE @]
            np == IF moves THEN _next_pos(item0.x, item0.y, tile.rot) ELSE <<item0.x, item0.y>>
            nx == np[1]
            ny == np[2]
            acc1 == [acc EXCEPT !.s.research_points = IF applies THEN @ + flow.research_gain ELSE @,
                                !.blocked = IF ~moves /\ tile.kind = EMPTY THEN @ + 1 ELSE @,
                                !.stages = @ \cup {<<tile.kind, item0.stage, item.stage>>},
                                !.keys = @ \cup {KeySeen(tile.kind, item0, item, s.orders)},
                                !.tags = IF tile.kind = ASSEMBLY_TABLE /\ item0.recipe_key = ""
                                         THEN @ \cup {[ingredient_type |-> item0.ingredient_type,
                                                       pending |-> RecipeKeysOf(s.orders),
                                                       recipe_key |-> item.recipe_key]}
                                         ELSE @]
        IN  MoveSeen(acc, item0, item, nx, ny,
                IF OffGrid(nx, ny) THEN acc1
                ELSE IF TileAt(s.grid, nx, ny).kind = SINK /\ item.stage = "baked" THEN SinkArrival(acc1, item, d)
                ELSE IF TileAt(s.grid, nx, ny).kind = EMPTY
                THEN [acc1 EXCEPT !.blocked = @ + 1, !.moved = Append(@, item)]
                ELSE IF Occupied(acc1.moved, nx, ny)
                THEN [acc1 EXCEPT !.blocked = @ + 1, !.moved = Append(@, item)]
                ELSE [acc1 EXCEPT !.moved = Append(@, [item EXCEPT !.x = nx, !.y = ny])])

RECURSIVE TransportFrom(_, _, _, _)
\* the loop from its i-th iteration on; self.items is not assigned before
\* the loop ends, so acc.s.items is the list the loop runs over
TransportFrom(acc, i, dt, d) ==
    IF i > Len(acc.s.items) THEN acc
    ELSE TransportFrom(TransportItem(acc, acc.s.items[i], dt, d), i + 1, dt, d)

(***************************************************************************)
(* The steps of tick after the transport pass.                             *)
(***************************************************************************)
RECURSIVE BotLoop(_, _)
\* while self.auto_bot_charge >= 1.0 and self.deliveries: lines 667-670
BotLoop(charge, deliveries) ==
    IF charge >= 1000 /\ Len(deliveries) > 0
    THEN LET target == CHOOSE i \in 1..Len(deliveries) :
                           /\ \A j \in 1..Len(deliveries) : deliveries[j].remaining <= deliveries[i].remaining
                           /\ \A j \in 1..(i - 1) : deliveries[j].remaining < deliveries[i].remaining
         IN  BotLoop(charge - 1000,
                     [deliveries EXCEPT ![target].remaining = Max(400, @ - BOT_AUTO_DELIVERY_REDUCTION)])
    ELSE [charge |-> charge, deliveries |-> deliveries]

\* auto-bot delivery acceleration: lines 664-670
AutoBots(s, dt) ==
    LET docks == Cardinality({c \in (0..(GRID_W - 1)) \X (0..(GRID_H - 1)) : s.grid[c[2]][c[1]].kind = BOT_DOCK})
        r == BotLoop(s.auto_bot_charge + Mul(dt, BOT_AUTO_CHARGE_RATE * docks), s.deliveries)
    IN  IF Unlocked(s.tech_tree, "bots") /\ docks > 0
        THEN [s EXCEPT !.auto_bot_charge = r.charge, !.deliveries = r.deliveries]
        ELSE s

\* expansion tier progression: lines 673-678
Expansion(s, dt) ==
    LET expansion_delivery_mult == IF Unlocked(s.tech_tree, "franchise_system") THEN FRANCHISE_EXPANSION_BONUS ELSE 1000
        progress == s.expansion_progress + Mul(dt, EXPANSION_PROGRESS_RATE)
                        + Mul(s.completed * EXPANSION_DELIVERY_BONUS, expansion_delivery_mult)
        needed == EXPANSION_BASE_NEEDED * s.expansion_level
    IN  IF progress >= needed
        THEN [s EXCEPT !.expansion_progress = progress - needed, !.expansion_level = @ + 1]
        ELSE [s EXCEPT !.expansion_progress = progress]

\* order SLA countdown: lines 681-686
OrderCountdown(s, dt) ==
    LET aged == [i \in 1..Len(s.orders) |-> [s.orders[i] EXCEPT !.remaining_sla = @ - dt]]
    IN  [s EXCEPT !.orders = SelectSeq(aged, LAMBDA order : order.remaining_sla > 0)]

\* a fault: every delivery counts as on time
AlwaysOnTime(delivery) == TRUE

\* line 700
OnTime(delivery) == delivery.elapsed <= delivery.sla

\* one iteration of `for d in self.deliveries`: lines 695-711
SettleDelivery(s, delivery0, dt) ==
    LET late_penalty == IF Unlocked(s.tech_tree, "priority_dispatch")
                        THEN PRIORITY_DISPATCH_LATE_MULTIPLIER ELSE LATE_DELIVERY_PENALTY
        delivery == [delivery0 EXCEPT !.elapsed = @ + dt, !.remaining = @ - dt]
        late_reward == Mul(delivery.reward, late_penalty)
    IN  IF delivery.remaining <= 0
        THEN IF OnTime(delivery)
             THEN [s EXCEPT !.completed = @ + 1,
                            !.ontime = @ + 1,
                            !.money = @ + delivery.reward,
                            !.total_revenue = @ + delivery.reward,
                            !.reputation = clamp(@ + REPUTATION_GAIN_ONTIME, 0, 100000)]
             ELSE [s EXCEPT !.completed = @ + 1,
                            !.money = @ + late_reward,
                            !.total_revenue = @ + late_reward,
                            !.reputation = clamp(@ - REPUTATION_LOSS_LATE, 0, 100000)]
        ELSE [s EXCEPT !.deliveries = Append(@, delivery)]

\* the iteration that made s2 of acc.s: the delivery as it was, the tick's
\* dt, whether priority_dispatch is unlocked, and the ledger before and after
SettleSeen(acc, delivery0, dt, s2) ==
    [s |-> s2,
     settles |-> acc.settles \cup {[delivery |-> delivery0, dt |-> dt,
                                    priority_dispatch |-> Unlocked(acc.s.tech_tree, "priority_dispatch"),
                                    pre |-> Ledger(acc.s), post |-> Ledger(s2)]}]

RECURSIVE SettleFrom(_, _, _, _)
\* acc.s.deliveries is next_deliveries while the loop runs
SettleFrom(acc, deliveries, i, dt) ==
    IF i > Len(deliveries) THEN acc
    ELSE SettleFrom(SettleSeen(acc, deliveries[i], dt, SettleDelivery(acc.s, deliveries[i], dt)),
                    deliveries, i + 1, dt)

\* the engine after the loop (s) and what each iteration did (settles)
DeliveryCompletion(s, dt) ==
    SettleFrom([s |-> [s EXCEPT !.deliveries = <<>>], settles |-> {}], s.deliveries, 1, dt)

(***************************************************************************)
(* tick(dt), with the values d it draws.  A tick in progress is the engine *)
(* (t.sim) and what the tick has done so far to orders and deliveries      *)
(* (t.ev), which the engine itself does not record.  tick returns both.    *)
(***************************************************************************)
SpawnDue(s, dt) ==
    LET effective_spawn_interval == IF Unlocked(s.tech_tree, "double_spawn")
                                    THEN (ITEM_SPAWN_INTERVAL * 1000) \div DOUBLE_SPAWN_INTERVAL_DIVISOR
                                    ELSE ITEM_SPAWN_INTERVAL
    IN  s.spawn_timer + dt >= effective_spawn_interval

OrderSpawnDue(s, dt) ==
    LET demand_multiplier == Max(100, COMMERCIALS(s.commercial_strategy).demand_multiplier)
        effective_order_spawn_interval == (ORDER_SPAWN_INTERVAL * 1000) \div demand_multiplier
    IN  s.order_spawn_timer + dt >= effective_order_spawn_interval

HygieneCooldownOver(s, dt) == (s.time + dt) - s.last_hygiene_event > HYGIENE_EVENT_COOLDOWN

\* lines 556-574: the clock, the timers and the two spawns
TickSpawns(s, dt, d) ==
    LET s1 == [s EXCEPT !.time = @ + dt,
                        !.spawn_timer = IF SpawnDue(s, dt) THEN 0 ELSE @ + dt,
                        !.order_spawn_timer = IF OrderSpawnDue(s, dt) THEN 0 ELSE @ + dt]
        s2 == IF SpawnDue(s, dt) THEN _spawn_item(s1, d) ELSE s1
    IN  IF OrderSpawnDue(s, dt) THEN _spawn_order(s2, d) ELSE s2

\* lines 577-584: hygiene fluctuation
TickHygiene(s, dt, d) ==
    LET hygiene_recovery == HYGIENE_RECOVERY_RATE
                              + (IF Unlocked(s.tech_tree, "hygiene_training") THEN HYGIENE_TRAINING_RECOVERY_BONUS ELSE 0)
        cooldown_over == s.time - s.last_hygiene_event > HYGIENE_EVENT_COOLDOWN
    IN  IF cooldown_over /\ d.event
        THEN [s EXCEPT !.last_hygiene_event = s.time,
                       !.hygiene = clamp(@ - d.drop, 0, 100000),
                       !.rng_calls = @ + 2]
        ELSE [s EXCEPT !.hygiene = clamp(@ + Mul(dt, hygiene_recovery), 0, 100000),
                       !.rng_calls = IF cooldown_over THEN @ + 1 ELSE @]

\* lines 586-660: the transport pass acc made over the items of t.sim
Transported(t, acc) ==
    [sim |-> [acc.s EXCEPT !.items = acc.moved,
                           !.bottleneck = clamp((acc.blocked * 100000) \div Max(1, Len(acc.moved)), 0, 100000)],
     ev |-> [t.ev EXCEPT !.matched = acc.matched, !.enqueued = acc.enqueued, !.eatin = acc.eatin,
                         !.stages = acc.stages, !.tags = acc.tags,
                         !.sinks = acc.sinks, !.fulfils = acc.fulfils, !.keys = acc.keys,
                         !.moves = acc.moves]]

\* s2 is the engine after a step of the tick that adds orders (created),
\* drops orders (expired) or drops deliveries (settled)
Observed(t, s2) ==
    [sim |-> s2,
     ev |-> [t.ev EXCEPT !.created = @ + Max(0, Len(s2.orders) - Len(t.sim.orders)),
                         !.expired = @ + Max(0, Len(t.sim.orders) - Len(s2.orders)),
                         !.settled = @ + Max(0, Len(t.sim.deliveries) - Len(s2.deliveries))]]

Spawns(t, dt, d) == Observed(t, TickSpawns(t.sim, dt, d))

Hygiene(t, dt, d) == [t EXCEPT !.sim = TickHygiene(@, dt, d)]

Transport(t, dt, d) ==
    Transported(t, TransportFrom([s |-> t.sim, moved |-> <<>>, blocked |-> 0,
                                  matched |-> 0, enqueued |-> 0, eatin |-> 0,
                                  stages |-> {}, tags |-> {}, sinks |-> {}, fulfils |-> {}, keys |-> {},
                                  moves |-> {}],
                                 1, dt, d))

Research(t) == [t EXCEPT !.sim = _process_research(@)]

Bots(t, dt) == [t EXCEPT !.sim = AutoBots(@, dt)]

Expand(t, dt) == [t EXCEPT !.sim = Expansion(@, dt)]

\* s2 is the engine after the countdown of lines 681-686 on t.sim
Counted(t, dt, s2) ==
    [Observed(t, s2) EXCEPT !.ev.expiries = {[orders |-> t.sim.orders, dt |-> dt, left |-> s2.orders,
                                              pre |-> Ledger(t.sim), post |-> Ledger(s2)]}]

Orders(t, dt) == Counted(t, dt, OrderCountdown(t.sim, dt))

\* the delivery completion acc made of t.sim
Settled(t, acc) == [Observed(t, acc.s) EXCEPT !.ev.settles = acc.settles]

Deliveries(t, dt) == Settled(t, DeliveryCompletion(t.sim, dt))

\* a fault: the SLA countdown runs before the transport pass
CountsDownFirst(s, dt, d) ==
    Deliveries(Expand(Bots(Research(Transport(Orders(Hygiene(Spawns(
        [sim |-> s, ev |-> NoEv], dt, d), dt, d), dt), dt, d)), dt), dt), dt)

\* a fault: the resolver runs before the transport pass
ResolvesFirst(s, dt, d) ==
    Deliveries(Orders(Expand(Bots(Transport(Research(Hygiene(Spawns(
        [sim |-> s, ev |-> NoEv], dt, d), dt, d)), dt, d), dt), dt), dt), dt)

tick(s, dt, d) ==
    Deliveries(Orders(Expand(Bots(Research(Transport(Hygiene(Spawns(
        [sim |-> s, ev |-> NoEv], dt, d), dt, d), dt, d)), dt), dt), dt), dt)

(***************************************************************************)
(* Serialisation.  A snapshot is a record keyed like the dict to_dict      *)
(* builds; its lists are sequences (the grid is a list of GRID_H rows of   *)
(* GRID_W tile dicts) and a key may be missing.  The generator is not part *)
(* of a snapshot: from_dict builds its engine with cls(), whose generator  *)
(* is freshly seeded.                                                      *)
(***************************************************************************)
\* dict.get(key, default)
Get(data, key, default) == IF key \in DOMAIN data THEN data[key] ELSE default

\* the saved grid is a value of any JSON type: a list of rows is the record
\* [list |-> rows], a string [str |-> text], and None what dict.get gives
\* for a missing key
None == [none |-> TRUE]

\* isinstance(value, list)
IsList(value) == "list" \in DOMAIN value

to_dict(s) ==
    [grid |-> [list |-> [r \in 1..GRID_H |-> [c \in 1..GRID_W |->
                  [kind |-> s.grid[r - 1][c - 1].kind, rot |-> s.grid[r - 1][c - 1].rot, hygiene_penalty |-> 0]]]],
     items |-> s.items,
     deliveries |-> s.deliveries,
     orders |-> s.orders,
     time |-> s.time,
     spawn_timer |-> s.spawn_timer,
     order_spawn_timer |-> s.order_spawn_timer,
     hygiene |-> s.hygiene,
     bottleneck |-> s.bottleneck,
     expansion_level |-> s.expansion_level,
     expansion_progress |-> s.expansion_progress,
     research_points |-> s.research_points,
     tech_tree |-> s.tech_tree,
     auto_bot_charge |-> s.auto_bot_charge,
     completed |-> s.completed,
     ontime |-> s.ontime,
     money |-> s.money,
     waste |-> s.waste,
     total_revenue |-> s.total_revenue,
     total_spend |-> s.total_spend,
     event_log |-> s.event_log,
     last_hygiene_event |-> s.last_hygiene_event,
     reputation |-> s.reputation,
     order_channel |-> s.order_channel,
     commercial_strategy |-> s.commercial_strategy,
     research_focus |-> s.research_focus]

\* stages are stored as strings; the legacy "cooked" flag stands in for a
\* missing stage
_normalize_item_state(raw_item) ==
    LET stage == IF "stage" \notin DOMAIN raw_item /\ "cooked" \in DOMAIN raw_item
                 THEN (IF raw_item["cooked"] THEN "baked" ELSE "raw")
                 ELSE Get(raw_item, "stage", "raw")
    IN  [x |-> Get(raw_item, "x", 0),
         y |-> Get(raw_item, "y", 0),
         progress |-> Get(raw_item, "progress", 0),
         stage |-> stage,
         delivery_boost |-> Get(raw_item, "delivery_boost", 0),
         ingredient_type |-> Get(raw_item, "ingredient_type", ""),
         recipe_key |-> Get(raw_item, "recipe_key", "")]

\* the dict holds the seven fields Delivery(**...) is given, so
\* late_reward_multiplier takes its default
_normalize_delivery_state(raw_delivery) ==
    LET default_recipe == RecipeOrder[1]
        saved_key == Get(raw_delivery, "recipe_key", default_recipe)
        recipe_key == IF saved_key \notin RecipeKeys THEN default_recipe ELSE saved_key
        fallback_remaining == Get(raw_delivery, "remaining", 0)
    IN  Delivery(Get(raw_delivery, "mode", "drone"),
                 fallback_remaining,
                 Get(raw_delivery, "elapsed", 0),
                 Get(raw_delivery, "sla", RECIPES(recipe_key).sla),
                 Get(raw_delivery, "duration", fallback_remaining),
                 recipe_key,
                 Get(raw_delivery, "reward", RECIPES(recipe_key).sell_price))

\* a fault: the saved recipe and channel keys are kept as they are
KeepsSavedKeys(raw_order) ==
    Order(Get(raw_order, "recipe_key", RecipeOrder[1]),
          Get(raw_order, "remaining_sla", 0),
          Get(raw_order, "total_sla", 0),
          Get(raw_order, "reward", 0),
          Get(raw_order, "channel_key", "delivery"))

_normalize_order_state(raw_order) ==
    LET default_recipe == RecipeOrder[1]
        saved_key == Get(raw_order, "recipe_key", default_recipe)
        recipe_key == IF saved_key \notin RecipeKeys THEN default_recipe ELSE saved_key
        total_sla == Get(raw_order, "total_sla", RECIPES(recipe_key).sla)
        saved_channel == Get(raw_order, "channel_key", "delivery")
        channel_key == IF saved_channel \notin ChannelKeys
                       THEN (IF "delivery" \in ChannelKeys THEN "delivery" ELSE ChannelOrder[1])
                       ELSE saved_channel
    IN  Order(recipe_key,
              Get(raw_order, "remaining_sla", total_sla),
              total_sla,
              Get(raw_order, "reward", RECIPES(recipe_key).sell_price),
              channel_key)

\* the grid from_dict keeps: the saved one when it has the engine's shape
UsableGrid(raw_grid) ==
    /\ IsList(raw_grid)
    /\ Len(raw_grid.list) = GRID_H
    /\ \A r \in 1..Len(raw_grid.list) : Len(raw_grid.list[r]) = GRID_W

LoadGrid(data, default) ==
    LET raw_grid == Get(data, "grid", None)
    IN  IF UsableGrid(raw_grid)
        THEN [y \in 0..(GRID_H - 1) |-> [x \in 0..(GRID_W - 1) |->
                 Tile(Get(raw_grid.list[y + 1][x + 1], "kind", EMPTY), Get(raw_grid.list[y + 1][x + 1], "rot", 0))]]
        ELSE default

from_dict(data) ==
    LET sim0 == FactorySim
        raw_items == Get(data, "items", <<>>)
        raw_deliveries == Get(data, "deliveries", <<>>)
        raw_orders == Get(data, "orders", <<>>)
        saved_tech == Get(data, "tech_tree", <<>>)
        raw_events == Get(data, "event_log", <<>>)
        \* lines 168-231
        sim1 == [sim0 EXCEPT
                    !.grid = LoadGrid(data, sim0.grid),
                    !.items = [i \in 1..Len(raw_items) |-> _normalize_item_state(raw_items[i])],
                    !.deliveries = [i \in 1..Len(raw_deliveries) |-> _normalize_delivery_state(raw_deliveries[i])],
                    !.orders = [i \in 1..Len(raw_orders) |-> _normalize_order_state(raw_orders[i])],
                    !.time = Get(data, "time", 0),
                    !.spawn_timer = Get(data, "spawn_timer", 0),
                    !.order_spawn_timer = Get(data, "order_spawn_timer", 0),
                    !.hygiene = Get(data, "hygiene", 100000),
                    !.bottleneck = Get(data, "bottleneck", 0),
                    !.expansion_level = Get(data, "expansion_level", 1),
                    !.expansion_progress = Get(data, "expansion_progress", 0),
                    !.research_points = Get(data, "research_points", 0),
                    !.tech_tree = [key \in Techs |-> Get(saved_tech, key, FALSE)],
                    !.auto_bot_charge = Get(data, "auto_bot_charge", 0),
                    !.completed = Get(data, "completed", 0),
                    !.ontime = Get(data, "ontime", 0),
                    !.money = Get(data, "money", STARTING_MONEY),
                    !.waste = Get(data, "waste", 0),
                    !.total_revenue = Get(data, "total_revenue", 0),
                    !.total_spend = Get(data, "total_spend", 0),
                    !.event_log = IF Len(raw_events) > 12
                                  THEN SubSeq(raw_events, Len(raw_events) - 11, Len(raw_events))
                                  ELSE raw_events,
                    !.last_hygiene_event = Get(data, "last_hygiene_event", 0),
                    !.reputation = Get(data, "reputation", REPUTATION_STARTING)]
        \* lines 232-233
        sim2 == set_order_channel(sim1, Get(data, "order_channel", "delivery")).sim
        sim3 == set_commercial_strategy(sim2, Get(data, "commercial_strategy", sim2.commercial_strategy), FALSE).sim
        \* lines 234-237
        saved_focus == Get(data, "research_focus", "")
    IN  IF /\ saved_focus # "" /\ saved_focus \in Techs
           /\ ~Unlocked(sim3.tech_tree, saved_focus)
           /\ _research_prerequisites_met(sim3, saved_focus)
        THEN [sim3 EXCEPT !.research_focus = saved_focus]
        ELSE sim3

(***************************************************************************)
(* Commands: one record per call of a public operation of the engine.      *)
(***************************************************************************)
Cmd(op) == [op |-> op, x |-> 0, y |-> 0, kind |-> "", rot |-> 0, key |-> "", dt |-> 0, d |-> NoDraw]

TickCmd(dt, d) == [Cmd("tick") EXCEPT !.dt = dt, !.d = d]

PlaceCmd(x, y, kind, rot) == [Cmd("place_tile") EXCEPT !.x = x, !.y = y, !.kind = kind, !.rot = rot]

KeyCmd(op, key) == [Cmd(op) EXCEPT !.key = key]

\* from_dict(data)
LoadCmd(data) ==
    [field \in DOMAIN Cmd("from_dict") \cup {"data"} |->
        IF field = "data" THEN data ELSE Cmd("from_dict")[field]]

\* a Python return value, as text
Ret(v) == IF v THEN "True" ELSE "False"

\* what a call did: the engine after it, what it returned, and for a tick
\* what it did to orders and deliveries
Returned(r) == [sim |-> r.sim, ret |-> Ret(r.ret), ev |-> NoEv]

Mutated(s) == [sim |-> s, ret |-> "None", ev |-> NoEv]

\* cycle_research_focus returns the new focus, a string
Focused(r) == [sim |-> r.sim, ret |-> r.ret, ev |-> NoEv]

Ticked(t) == [sim |-> t.sim, ret |-> "None", ev |-> t.ev]

\* _spawn_order called on s left s2
Spawned(s, s2) ==
    [sim |-> s2, ret |-> "None", ev |-> [NoEv EXCEPT !.created = Len(s2.orders) - Len(s.orders)]]

\* the running totals of what ticks did to orders and deliveries
AddEv(t, ev) ==
    [t EXCEPT !.created = @ + ev.created, !.matched = @ + ev.matched,
              !.enqueued = @ + ev.enqueued, !.eatin = @ + ev.eatin,
              !.expired = @ + ev.expired, !.settled = @ + ev.settled]

(***************************************************************************)
(* The inputs of the calls.                                                *)
(***************************************************************************)
DtSet == {0, 1000, 6000}

\* can a tick of dt from s hand an item to the sink with an order pending?
MayDeliver(s, dt) ==
    /\ \E i \in 1..Len(s.items) : s.items[i].stage \in {"processed", "baked"}
    /\ Len(s.orders) > 0 \/ OrderSpawnDue(s, dt)

\* the draws a tick of dt from s can consume: either ingredient, the first
\* or the last recipe on offer, a hygiene event or none, and the fastest
\* drone or the slowest scooter; a draw the tick cannot consume is left at
\* its NoDraw value, and at most one draw of a tick departs from NoDraw
DrawsFor(s, dt) ==
    LET last_recipe == Max(1, Len(_available_recipes(s, s.order_channel))) - 1
    IN  {d \in [ingredient : IF SpawnDue(s, dt) THEN IngredientChoices ELSE {NoDraw.ingredient},
                recipe : IF OrderSpawnDue(s, dt) THEN {0, last_recipe} ELSE {NoDraw.recipe},
                event : IF HygieneCooldownOver(s, dt) THEN BOOLEAN ELSE {NoDraw.event},
                drop : DropChoices,
                mode : IF MayDeliver(s, dt) THEN 0..1 ELSE {NoDraw.mode},
                travel : IF MayDeliver(s, dt) THEN TravelChoices ELSE {NoDraw.travel}] :
            /\ (d.mode = 0) = (d.travel = 0)
            /\ Cardinality({draw \in {"ingredient", "recipe", "event", "mode"} : d[draw] # NoDraw[draw]}) <= 1}

TickInputs(s) == UNION {{TickCmd(dt, d) : d \in DrawsFor(s, dt)} : dt \in DtSet}

TileKinds == {EMPTY, CONVEYOR, MACHINE, PROCESSOR, OVEN, BOT_DOCK, ASSEMBLY_TABLE, SOURCE, SINK}

\* calls a player can make or script: outside the grid, on the source, on
\* the sink, on an empty corner and on a cell of the starting belt
PlaceInputs ==
    {PlaceCmd(0 - 1, 7, CONVEYOR, 0), PlaceCmd(5, GRID_H, CONVEYOR, 0),
     PlaceCmd(1, 7, CONVEYOR, 1), PlaceCmd(18, 7, EMPTY, 0),
     PlaceCmd(3, 7, CONVEYOR, 1), PlaceCmd(3, 7, PROCESSOR, 0), PlaceCmd(3, 7, EMPTY, 0)}
        \cup {PlaceCmd(0, 0, kind, 6) : kind \in TileKinds \ {MACHINE, SOURCE}}

ChannelInputs == {KeyCmd("set_order_channel", key) : key \in ChannelKeys \cup {"drive_thru"}}

CommercialInputs == {KeyCmd("set_commercial_strategy", key) : key \in CommercialKeys \cup {"billboards"}}

FocusInputs == {KeyCmd("set_research_focus", key) : key \in {"", "turbo_oven", "precision_cooking", "warp_drive"}}

FreeInputs(s, op) ==
    CASE op = "tick" -> TickInputs(s)
      [] op = "place_tile" -> PlaceInputs
      [] op = "set_order_channel" -> ChannelInputs
      [] op = "set_commercial_strategy" -> CommercialInputs
      [] op = "set_research_focus" -> FocusInputs
      [] OTHER -> {Cmd(op)}

(***************************************************************************)
(* A session: the calls of a script, then up to MaxSteps calls of any kind.*)
(* tally adds up what the ticks did; last is the latest call, what it      *)
(* returned and the engine it was made on.                                 *)
(***************************************************************************)
LateTicks == 50

EatInTicks == 78

EdgeTicks == 4

SpendCalls == 9

BeltCalls == 6

DockTicks == 15

TableTicks == 15

CapCalls == 5

KeepTicks == 14

UnbakedTicks == 17

\* the slowest delivery there is: a scooter that needs the full 10 s
LateDraw == [NoDraw EXCEPT !.mode = 1, !.travel = 1000]

\* takeaway orders, every one delivered late: reputation falls to 0.5
LateScript ==
    <<KeyCmd("set_order_channel", "takeaway")>> \o [i \in 1..LateTicks |-> TickCmd(6000, LateDraw)]

\* eat-in orders, each settled as its pizza reaches the sink: reputation
\* rises to 99.6
EatInScript ==
    <<KeyCmd("set_order_channel", "eat_in")>> \o [i \in 1..EatInTicks |-> TickCmd(6000, NoDraw)]

\* the belt turned up and left at its second cell, to run off the grid at
\* (0, 6), and a conveyor at the other end of that row, the cell that
\* self.grid[6][-1] is: the first item stands on the last cell of the belt
EdgeScript ==
    <<PlaceCmd(2, 7, CONVEYOR, 3), PlaceCmd(2, 6, CONVEYOR, 2), PlaceCmd(1, 6, CONVEYOR, 2),
      PlaceCmd(0, 6, CONVEYOR, 2), PlaceCmd(GRID_W - 1, 6, CONVEYOR, 2)>>
        \o [i \in 1..EdgeTicks |-> TickCmd(6000, NoDraw)]

\* the commercial strategy switched back and forth, then conveyors laid on
\* the bottom row: money falls to 10
SpendScript ==
    [i \in 1..SpendCalls |-> KeyCmd("set_commercial_strategy", IF i % 2 = 1 THEN "promos" ELSE "campaigns")]
        \o [i \in 1..BeltCalls |-> PlaceCmd(i - 1, GRID_H - 1, CONVEYOR, 0)]

\* the belt led from the oven up and back through the bot dock, which feeds
\* the oven again: baked items pass the dock
DockScript ==
    <<PlaceCmd(13, 7, CONVEYOR, 3), PlaceCmd(13, 6, CONVEYOR, 2)>>
        \o [i \in 1..DockTicks |-> TickCmd(6000, NoDraw)]

\* an assembly table as the last cell of the belt before the sink, and
\* pepperoni at the source, until the first item stands on the table
TableScript ==
    <<PlaceCmd(16, 7, ASSEMBLY_TABLE, 0)>>
        \o [i \in 1..TableTicks |-> TickCmd(6000, [NoDraw EXCEPT !.ingredient = "pepperoni"])]

\* the eat-in channel, and orders spawned one after another with no tick
\* in between: more of them than the channel's max_active_orders
CapScript ==
    <<KeyCmd("set_order_channel", "eat_in")>> \o [i \in 1..CapCalls |-> Cmd("_spawn_order")]

\* two assembly tables in a row before the end of the belt, and the order
\* of the last tick is for the second recipe on offer
KeepScript ==
    <<PlaceCmd(15, 7, ASSEMBLY_TABLE, 0), PlaceCmd(16, 7, ASSEMBLY_TABLE, 0)>>
        \o [i \in 1..KeepTicks |-> TickCmd(6000, NoDraw)]
        \o <<TickCmd(6000, [NoDraw EXCEPT !.recipe = 1])>>

\* a conveyor laid over the oven: items reach the end of the belt processed
\* and not baked
UnbakedScript ==
    <<PlaceCmd(12, 7, CONVEYOR, 0)>> \o [i \in 1..UnbakedTicks |-> TickCmd(6000, NoDraw)]

Scripts ==
    {<<>>, LateScript, EatInScript, EdgeScript, SpendScript, DockScript, TableScript, CapScript, KeepScript,
     UnbakedScript}

Calls(op) ==
    IF script # <<>>
    THEN IF Head(script).op = op THEN {Head(script)} ELSE {}
    ELSE IF steps < MaxSteps THEN FreeInputs(sim, op) ELSE {}

\* the call c, which did r
Step(c, r) ==
    /\ sim' = r.sim
    /\ tally' = AddEv(tally, r.ev)
    /\ last' = [cmd |-> c, ret |-> r.ret, ev |-> r.ev, pre |-> sim]
    /\ steps' = IF script # <<>> THEN steps ELSE steps + 1
    /\ script' = IF script # <<>> THEN Tail(script) ELSE script

Init ==
    /\ sim = FactorySim
    /\ tally = NoEv
    /\ last = [cmd |-> Cmd("__init__"), ret |-> "None", ev |-> NoEv, pre |-> FactorySim]
    /\ steps = 0
    /\ script \in Scripts

Tick == \E c \in Calls("tick") : Step(c, Ticked(tick(sim, c.dt, c.d)))

SpawnOrder == \E c \in Calls("_spawn_order") : Step(c, Spawned(sim, _spawn_order(sim, c.d)))

PlaceTile == \E c \in Calls("place_tile") : Step(c, Mutated(place_tile(sim, c.x, c.y, c.kind, c.rot)))

SetOrderChannel == \E c \in Calls("set_order_channel") : Step(c, Returned(set_order_channel(sim, c.key)))

SetCommercialStrategy ==
    \E c \in Calls("set_commercial_strategy") : Step(c, Returned(set_commercial_strategy(sim, c.key, TRUE)))

SetResearchFocus == \E c \in Calls("set_research_focus") : Step(c, Returned(set_research_focus(sim, c.key)))

CycleResearchFocus == \E c \in Calls("cycle_research_focus") : Step(c, Focused(cycle_research_focus(sim)))

TryUnlockResearchFocus ==
    \E c \in Calls("try_unlock_research_focus") : Step(c, Returned(try_unlock_research_focus(sim)))

\* save_game then load_game: the engine is replaced by from_dict of its own
\* to_dict
SaveLoad == \E c \in Calls("save_load") : Step(c, Mutated(from_dict(to_dict(sim))))

Next ==
    \/ Tick
    \/ SpawnOrder
    \/ PlaceTile
    \/ SetOrderChannel
    \/ SetCommercialStrategy
    \/ SetResearchFocus
    \/ CycleResearchFocus
    \/ TryUnlockResearchFocus
    \/ SaveLoad

Spec == Init /\ [][Next]_vars

(***************************************************************************)
(* Sessions that start from a loaded snapshot: a save file is a JSON       *)
(* document, and from_dict takes whatever it holds.                        *)
(***************************************************************************)
\* saves made at any stage of the research
ResearchSnapshots ==
    {[to_dict(FactorySim) EXCEPT !.research_points = rp,
                                 !.research_focus = focus,
                                 !.tech_tree = [tech \in Techs |-> tech \in unlocked]] :
        rp \in {TECH_UNLOCK_COSTS("precision_cooking"), TECH_UNLOCK_COSTS("franchise_system")},
        focus \in {"", "precision_cooking"},
        unlocked \in {{}, {"turbo_oven"}}}

\* three scooter deliveries in flight: one that will be on time, one that
\* is late already, one with a long way to go
InFlight ==
    <<Delivery("scooter", 1000, 5000, 11000, 6000, "margherita", 12),
      Delivery("scooter", 1000, 9000, 5000, 10000, "pepperoni", 15),
      Delivery("scooter", 9000, 1000, 10000, 10000, "pepperoni", 15)>>

\* saves made with deliveries in flight, before any research and with the
\* points that have unlocked priority_dispatch and every cheaper technology
DeliverySnapshots ==
    {[to_dict(FactorySim) EXCEPT !.deliveries = InFlight,
                                 !.expansion_level = 2,
                                 !.research_points = rp,
                                 !.tech_tree = [tech \in Techs |-> TECH_UNLOCK_COSTS(tech) <= rp]] :
        rp \in {0, TECH_UNLOCK_COSTS("priority_dispatch")}}

\* saves made as a baked item that has passed a bot dock stands on the last
\* cell of the belt, with deliveries in flight and one order pending
BoostSnapshots ==
    {[to_dict(FactorySim) EXCEPT
         !.deliveries = InFlight,
         !.orders = <<Order("margherita", 30000, 30000, 11, channel_key)>>,
         !.items = <<[Item(17, 7, 0, "baked", "flour") EXCEPT !.delivery_boost = PROCESS_FLOW(BOT_DOCK).delivery_boost,
                                                              !.recipe_key = "margherita"]>>] :
        channel_key \in {"eat_in", "delivery"}}

\* grids no engine of this build wrote: a string, a row short, a column
\* short
DamagedGrids ==
    {[str |-> "corrupt"],
     [list |-> SubSeq(to_dict(FactorySim).grid.list, 1, GRID_H - 1)],
     [list |-> [r \in 1..GRID_H |-> SubSeq(to_dict(FactorySim).grid.list[r], 1, GRID_W - 1)]]}

\* saves of another build or edited by hand: nearly every field missing;
\* or a damaged grid, a technology, a recipe and a channel this build does
\* not know, and orders and deliveries with fields missing
DamagedSnapshots ==
    {[time |-> 5000]} \cup
    {[to_dict(FactorySim) EXCEPT
         !.grid = raw_grid,
         !.tech_tree = [tech \in {"ovens", "alien_tech"} |-> TRUE],
         !.orders = <<[recipe_key |-> "calzone", channel_key |-> "drive_thru"], [reward |-> 9]>>,
         !.deliveries = <<[recipe_key |-> "calzone", remaining |-> 4000]>>] :
        raw_grid \in DamagedGrids}

\* a save whose one item is left of the grid
StraySnapshots ==
    {[to_dict(FactorySim) EXCEPT !.items = <<Item(0 - 1, 7, 0, "raw", "flour")>>]}

Snapshots ==
    ResearchSnapshots \cup DeliverySnapshots \cup BoostSnapshots \cup DamagedSnapshots \cup StraySnapshots

InitLoad ==
    \E data \in Snapshots :
        /\ sim = from_dict(data)
        /\ tally = NoEv
        /\ last = [cmd |-> LoadCmd(data), ret |-> "None", ev |-> NoEv, pre |-> sim]
        /\ steps = 0
        /\ script = <<>>

SpecLoad == InitLoad /\ [][Next]_vars

(***************************************************************************)
(* Research over any catalog.  A data/research.json, when there is one,    *)
(* replaces the built-in catalog: load_research_catalog parses it, and     *)
(* RESEARCH and TECH_UNLOCK_COSTS are what it returns.  An engine here is  *)
(* the research part of FactorySim over such a catalog: the catalog (a     *)
(* list of technologies in iteration order), tech_tree, research_points    *)
(* and research_focus.                                                     *)
(***************************************************************************)
ListToSet(list) == {list[i] : i \in 1..Len(list)}

\* the keys of the files
FileKeys == {"a", "b", "c"}

\* TECH_ID_RE over the ids the files use: "d" is well formed and the key
\* of no entry, "9x" is not well formed
_is_valid_tech_id(value) == value \in FileKeys \cup {"d"}

\* the ResearchDefinition parsed from an entry (ok = FALSE for None); the
\* entries here have a display_name, a cost and a list of prerequisites,
\* and no branch
_parse_research_entry(key, entry) ==
    [ok |-> /\ _is_valid_tech_id(key)
            /\ entry.display_name # ""
            /\ entry.cost > 0
            /\ \A i \in 1..Len(entry.prerequisites) : _is_valid_tech_id(entry.prerequisites[i])
            /\ Cardinality(ListToSet(entry.prerequisites)) = Len(entry.prerequisites)
            /\ key \notin ListToSet(entry.prerequisites),
     key |-> key, cost |-> entry.cost, prerequisites |-> entry.prerequisites]

\* str < str on the keys of the files
KeyBefore(key, other) ==
    \/ key = "a" /\ other \in {"b", "c"}
    \/ key = "b" /\ other = "c"

\* sorted(research_entries, key=lambda entry: (entry.cost, entry.key))
_ordered_runtime_catalog(research_entries) ==
    [i \in 1..Cardinality(research_entries) |->
        CHOOSE entry \in research_entries :
            Cardinality({other \in research_entries :
                            \/ other.cost < entry.cost
                            \/ other.cost = entry.cost /\ KeyBefore(other.key, entry.key)}) = i - 1]

_has_missing_prerequisites(research_entries) ==
    \E entry \in research_entries :
        \E prereq \in ListToSet(entry.prerequisites) : prereq \notin {other.key : other \in research_entries}

\* DEFAULT_RESEARCH, ordered
DefaultCatalog ==
    [i \in 1..Len(TechOrder) |->
        [key |-> TechOrder[i], cost |-> TECH_UNLOCK_COSTS(TechOrder[i]),
         prerequisites |-> IF TechOrder[i] = "precision_cooking" THEN <<"turbo_oven">> ELSE <<>>]]

\* raw is the parsed JSON object of the file: entries by key
load_research_catalog(raw) ==
    LET parsed == {[key |-> key, cost |-> raw[key].cost, prerequisites |-> raw[key].prerequisites] :
                      key \in {k \in DOMAIN raw : _parse_research_entry(k, raw[k]).ok}}
    IN  IF parsed = {} \/ _has_missing_prerequisites(parsed)
        THEN DefaultCatalog
        ELSE _ordered_runtime_catalog(parsed)

\* the files: for each key an entry, well formed or not (no name, no cost,
\* a prerequisite that is the entry itself, unknown, malformed or doubled)
RawCatalogs ==
    [FileKeys -> {[display_name |-> display_name, cost |-> cost, prerequisites |-> prerequisites] :
                     display_name \in {"Tech"},
                     cost \in {0, 1000, 2000},
                     prerequisites \in {<<>>, <<"a">>, <<"b">>, <<"c">>, <<"d">>, <<"9x">>, <<"b", "b">>}}]
        \cup [{"a"} -> {[display_name |-> "", cost |-> 1000, prerequisites |-> <<>>]}]

KeysOf(research) == {research[i].key : i \in 1..Len(research)}

\* RESEARCH[tech]
EntryOf(research, tech) == CHOOSE entry \in ListToSet(research) : entry.key = tech

\* FactorySim.__init__ over the catalog, with the points a session has made
ResearchEngine(research, research_points) ==
    [research |-> research,
     tech_tree |-> [tech \in KeysOf(research) |-> FALSE],
     research_points |-> research_points,
     research_focus |-> ""]

\* _research_prerequisites_met
PrerequisitesMetIn(s, tech_tree, tech) ==
    \A prereq \in ListToSet(EntryOf(s.research, tech).prerequisites) : Unlocked(tech_tree, prereq)

\* available_research_targets
TargetsIn(s) ==
    SelectSeq([i \in 1..Len(s.research) |-> s.research[i].key],
              LAMBDA tech : ~Unlocked(s.tech_tree, tech) /\ PrerequisitesMetIn(s, s.tech_tree, tech))

\* set_research_focus
SetFocusIn(s, tech) ==
    IF tech = "" THEN [s EXCEPT !.research_focus = ""]
    ELSE IF tech \notin KeysOf(s.research) \/ Unlocked(s.tech_tree, tech) THEN s
    ELSE IF ~PrerequisitesMetIn(s, s.tech_tree, tech) THEN s
    ELSE [s EXCEPT !.research_focus = tech]

\* cycle_research_focus
CycleFocusIn(s) ==
    LET available == TargetsIn(s)
    IN  IF Len(available) = 0 THEN [s EXCEPT !.research_focus = ""]
        ELSE IF s.research_focus \notin ListToSet(available) THEN [s EXCEPT !.research_focus = available[1]]
        ELSE [s EXCEPT !.research_focus = available[(IndexOf(available, s.research_focus) % Len(available)) + 1]]

\* try_unlock_research_focus
TryUnlockFocusIn(s) ==
    IF /\ s.research_focus # "" /\ ~Unlocked(s.tech_tree, s.research_focus)
       /\ PrerequisitesMetIn(s, s.tech_tree, s.research_focus)
       /\ s.research_points >= EntryOf(s.research, s.research_focus).cost
    THEN [sim |-> [s EXCEPT !.tech_tree[s.research_focus] = TRUE, !.research_focus = ""], ret |-> TRUE]
    ELSE [sim |-> s, ret |-> FALSE]

\* _process_research, the research of a tick
ProcessResearchIn(s) ==
    IF TryUnlockFocusIn(s).ret THEN TryUnlockFocusIn(s).sim
    ELSE [s EXCEPT !.tech_tree =
             [tech \in KeysOf(s.research) |->
                 \/ s.tech_tree[tech]
                 \/ /\ PrerequisitesMetIn(s, s.tech_tree, tech)
                    /\ s.research_points >= EntryOf(s.research, tech).cost]]

\* max(TECH_UNLOCK_COSTS.values())
HighestCost(research) ==
    CHOOSE cost \in {research[i].cost : i \in 1..Len(research)} :
        \A i \in 1..Len(research) : research[i].cost <= cost

\* the engine starts over the catalog of a file, before any point is made
\* or with points for the dearest technology; the points stay
InitCatalog ==
    \E raw \in RawCatalogs :
        \E rich \in BOOLEAN :
            /\ sim = ResearchEngine(load_research_catalog(raw),
                                    IF rich THEN HighestCost(load_research_catalog(raw)) ELSE 0)
            /\ tally = NoEv
            /\ last = [cmd |-> Cmd("__init__"), ret |-> "None", ev |-> NoEv, pre |-> sim]
            /\ steps = 0
            /\ script = <<>>

\* the call of op with the argument key made the research engine r
CatalogStep(op, key, r) ==
    /\ sim' = r
    /\ last' = [cmd |-> KeyCmd(op, key), ret |-> "None", ev |-> NoEv, pre |-> sim]
    /\ UNCHANGED <<tally, steps, script>>

CatalogTick == \E op \in {"tick"} : CatalogStep(op, "", ProcessResearchIn(sim))

CatalogSetFocus ==
    \E tech \in KeysOf(sim.research) \cup {""} : CatalogStep("set_research_focus", tech, SetFocusIn(sim, tech))

CatalogCycleFocus == \E op \in {"cycle_research_focus"} : CatalogStep(op, "", CycleFocusIn(sim))

NextCatalog ==
    \/ CatalogTick
    \/ CatalogSetFocus
    \/ CatalogCycleFocus

\* the main loop calls tick every frame, whatever else the player does
SpecCatalog == InitCatalog /\ [][NextCatalog]_vars /\ WF_vars(CatalogTick)

(***************************************************************************)
(* Properties.  last.pre is the engine the latest call was made on, so a   *)
(* property of one call is a property of (last.pre, last.cmd, sim).        *)
(***************************************************************************)
TypeOK ==
    /\ steps \in 0..MaxSteps
    /\ DOMAIN sim = DOMAIN FactorySim
    /\ DOMAIN sim.tech_tree = Techs
    /\ sim.order_channel \in ChannelKeys
    /\ sim.commercial_strategy \in CommercialKeys

\* C1: from a fresh engine, whatever ticks, settlements (on time, late,
\* eat-in), setters and place_tile calls are made, reputation is within
\* [0, 100]
ReputationInBounds == 0 <= sim.reputation /\ sim.reputation <= 100000

\* a late delivery settled when reputation was less than one loss above 0
ReputationFlooredAtZero ==
    /\ last.cmd.op = "tick"
    /\ last.ev.settled > 0
    /\ sim.ontime = last.pre.ontime
    /\ last.pre.reputation > 0
    /\ last.pre.reputation < REPUTATION_LOSS_LATE
    /\ sim.reputation = 0

\* an eat-in order settled when reputation was less than one gain below 100
ReputationCappedAtHundred ==
    /\ last.cmd.op = "tick"
    /\ last.ev.eatin > 0
    /\ last.pre.reputation < 100000
    /\ last.pre.reputation + REPUTATION_GAIN_ONTIME > 100000
    /\ sim.reputation = 100000

\* C2: no call moves a technology from locked to unlocked unless each of
\* its prerequisites was unlocked before the call, whatever research_points
PrerequisiteGating ==
    \A tech \in Techs :
        sim.tech_tree[tech] /\ ~last.pre.tech_tree[tech]
            => \A prereq \in Prerequisites(tech) : last.pre.tech_tree[prereq]

\* a tick with points enough for precision_cooking and for its prerequisite
\* turbo_oven, both locked: turbo_oven is unlocked, precision_cooking is not
PrecisionCookingHeldBack ==
    /\ last.cmd.op = "tick"
    /\ last.pre.research_points >= TECH_UNLOCK_COSTS("precision_cooking")
    /\ ~last.pre.tech_tree["turbo_oven"]
    /\ sim.tech_tree["turbo_oven"]
    /\ ~sim.tech_tree["precision_cooking"]

\* C3: an order leaves the pending list once, matched or expired, and a
\* matched order gives one delivery or one eat-in settlement: over a run
\* matched + expired + pending = created, and deliveries created = matched
\* - eat-in settlements <= matched; a delivery leaves the list once, settled
OrdersAccounted ==
    /\ tally.matched + tally.expired + Len(sim.orders) = tally.created
    /\ tally.matched = tally.enqueued + tally.eatin
    /\ tally.enqueued <= tally.matched
    /\ tally.settled + Len(sim.deliveries) = tally.enqueued

\* a run in which orders were matched and delivered, orders expired and
\* orders are pending
OrdersInEveryState ==
    /\ tally.enqueued > 0
    /\ tally.expired > 0
    /\ tally.settled > 0
    /\ Len(sim.orders) > 0
    /\ Len(sim.deliveries) > 0

\* C4: after every tick every live item is on the grid, whatever the
\* player has built
ItemsInGrid ==
    \A i \in 1..Len(sim.items) :
        /\ 0 <= sim.items[i].x /\ sim.items[i].x < GRID_W
        /\ 0 <= sim.items[i].y /\ sim.items[i].y < GRID_H

\* a tick long enough to move an item that stood on a conveyor pointing off
\* the grid
ItemRanOffTheEdge ==
    /\ last.cmd.op = "tick"
    /\ last.cmd.dt = 6000
    /\ \E i \in 1..Len(last.pre.items) :
           LET item == last.pre.items[i]
               tile == last.pre.grid[item.y][item.x]
               np == _next_pos(item.x, item.y, tile.rot)
           IN  /\ tile.kind = CONVEYOR
               /\ np[1] < 0 \/ np[1] >= GRID_W \/ np[2] < 0 \/ np[2] >= GRID_H

\* the fields C6 names: the scalar counters, the technology tree, the three
\* selections and the item, order and delivery lists
RoundTripFields ==
    {"time", "spawn_timer", "order_spawn_timer", "hygiene", "bottleneck", "expansion_level",
     "expansion_progress", "research_points", "auto_bot_charge", "completed", "ontime", "money",
     "waste", "total_revenue", "total_spend", "last_hygiene_event", "reputation", "tech_tree",
     "order_channel", "commercial_strategy", "research_focus", "items", "orders", "deliveries"}

\* C6: from_dict(to_dict(s)) equals s on the scalar counters, tech_tree,
\* order_channel, commercial_strategy, research_focus and the fields of
\* every item, order and delivery, for every s reached by ticks and commands
RoundTripRestoresState ==
    last.cmd.op = "save_load" => \A field \in RoundTripFields : sim[field] = last.pre[field]

\* C7: money is debited only when it covers the amount, so it is never
\* negative in a state reached from a fresh engine
MoneyNeverNegative ==
    /\ sim.money >= 0
    /\ sim.money < last.pre.money => last.pre.money >= last.pre.money - sim.money

\* a build that took all the money there was
LastCoinSpent ==
    /\ last.cmd.op = "place_tile"
    /\ last.pre.money > 0
    /\ sim.money = 0

\* C8: place_tile of a kind the player may build, on a cell that is not the
\* source or the sink: on an empty cell with money >= the kind's cost it
\* sets the tile and moves exactly the cost from money to total_spend; with
\* less money it places nothing; on an occupied cell, or demolishing, it
\* leaves money and total_spend alone
PlaceTileCharges ==
    LET c == last.cmd
        pre == last.pre
        cost == MACHINE_BUILD_COSTS(c.kind)
        inside == 0 <= c.x /\ c.x < GRID_W /\ 0 <= c.y /\ c.y < GRID_H
        was == pre.grid[c.y][c.x].kind
        allowed == /\ was \notin {SOURCE, SINK}
                   /\ c.kind = OVEN => pre.tech_tree["ovens"]
                   /\ c.kind = BOT_DOCK => pre.tech_tree["bots"]
    IN  c.op = "place_tile" /\ inside =>
            /\ allowed /\ c.kind # EMPTY /\ was = EMPTY /\ pre.money >= cost =>
                   /\ sim.grid[c.y][c.x] = Tile(c.kind, c.rot % 4)
                   /\ sim.money = pre.money - cost
                   /\ sim.total_spend = pre.total_spend + cost
            /\ allowed /\ c.kind # EMPTY /\ was = EMPTY /\ pre.money < cost =>
                   /\ sim.grid = pre.grid
                   /\ sim.money = pre.money
                   /\ sim.total_spend = pre.total_spend
            /\ c.kind = EMPTY \/ was # EMPTY =>
                   /\ sim.money = pre.money
                   /\ sim.total_spend = pre.total_spend

\* a kind with a price built on an empty cell
BuildPaidFor ==
    /\ last.cmd.op = "place_tile"
    /\ MACHINE_BUILD_COSTS(last.cmd.kind) > 0
    /\ sim.money = last.pre.money - MACHINE_BUILD_COSTS(last.cmd.kind)
    /\ sim.total_spend = last.pre.total_spend + MACHINE_BUILD_COSTS(last.cmd.kind)
    /\ sim.grid # last.pre.grid

\* C9: a place_tile call that is rejected (coordinates outside the grid, the
\* source or sink as target, an oven without "ovens", a bot dock without
\* "bots", an empty target with money below the cost) changes nothing at all
RejectedPlaceTileChangesNothing ==
    LET c == last.cmd
        pre == last.pre
        inside == 0 <= c.x /\ c.x < GRID_W /\ 0 <= c.y /\ c.y < GRID_H
        was == pre.grid[c.y][c.x].kind
        rejected == \/ ~inside
                    \/ inside /\ was \in {SOURCE, SINK}
                    \/ c.kind = OVEN /\ ~pre.tech_tree["ovens"]
                    \/ c.kind = BOT_DOCK /\ ~pre.tech_tree["bots"]
                    \/ inside /\ was = EMPTY /\ c.kind # EMPTY /\ pre.money < MACHINE_BUILD_COSTS(c.kind)
    IN  c.op = "place_tile" /\ rejected => sim = pre

\* a build on an empty cell refused for lack of money alone
BuildUnaffordable ==
    /\ last.cmd.op = "place_tile"
    /\ last.cmd.kind = PROCESSOR
    /\ last.pre.grid[last.cmd.y][last.cmd.x].kind = EMPTY
    /\ last.pre.money < MACHINE_BUILD_COSTS(PROCESSOR)
    /\ sim = last.pre

\* C10: whatever place_tile calls and ticks are made, the cells that held
\* the source and the sink in the fresh world hold them still, rotation
\* unchanged
SourceAndSinkKept ==
    \A y \in 0..(GRID_H - 1), x \in 0..(GRID_W - 1) :
        place_static_world[y][x].kind \in {SOURCE, SINK} => sim.grid[y][x] = place_static_world[y][x]

\* a demolition aimed at the sink
SinkDemolitionTried ==
    /\ last.cmd.op = "place_tile"
    /\ last.cmd.kind = EMPTY
    /\ last.pre.grid[last.cmd.y][last.cmd.x].kind = SINK

\* C11: set_order_channel(c) with reputation below c's min_reputation
\* returns false, keeps order_channel and appends a "locked" entry to the
\* event log; with an unknown key it returns false and changes nothing;
\* otherwise it makes c the order channel and returns true
SetOrderChannelOutcomes ==
    LET c == last.cmd
        pre == last.pre
        known == c.key \in ChannelKeys
    IN  c.op = "set_order_channel" =>
            /\ ~known => last.ret = "False" /\ sim = pre
            /\ known /\ pre.reputation < ORDER_CHANNELS(c.key).min_reputation =>
                   /\ last.ret = "False"
                   /\ sim.order_channel = pre.order_channel
                   /\ sim.event_log[Len(sim.event_log)] = <<"Order channel locked", c.key>>
                   /\ sim = [pre EXCEPT !.event_log = sim.event_log]
            /\ known /\ pre.reputation >= ORDER_CHANNELS(c.key).min_reputation =>
                   /\ last.ret = "True"
                   /\ sim.order_channel = c.key

\* eat-in asked for with a reputation below the 25 it needs
ChannelRefusedForReputation ==
    /\ last.cmd.op = "set_order_channel"
    /\ last.cmd.key = "eat_in"
    /\ last.pre.reputation < ORDER_CHANNELS("eat_in").min_reputation
    /\ last.pre.order_channel = "takeaway"
    /\ last.ret = "False"
    /\ sim.order_channel = "takeaway"

\* the position of a stage in ITEM_STAGE_ORDER
StageIndex(stage) == IndexOf(ITEM_STAGE_ORDER, stage)

\* C12: no item's stage regresses: in every tick each item keeps its stage
\* or advances one step along raw -> processed -> baked, a processor changing
\* only raw and an oven only processed (a bot dock leaves baked as baked);
\* no other call touches an item, and a save and load keeps every stage
StageNeverRegresses ==
    /\ \A ch \in last.ev.stages :
           \/ ch[3] = ch[2]
           \/ ch[1] = PROCESSOR /\ ch[2] = "raw" /\ ch[3] = "processed"
           \/ ch[1] = OVEN /\ ch[2] = "processed" /\ ch[3] = "baked"
    /\ \A ch \in last.ev.stages : StageIndex(ch[3]) >= StageIndex(ch[2])
    /\ last.cmd.op \notin {"tick", "save_load"} => sim.items = last.pre.items
    /\ last.cmd.op = "save_load" =>
           /\ Len(sim.items) = Len(last.pre.items)
           /\ \A i \in 1..Len(sim.items) : sim.items[i].stage = last.pre.items[i].stage

\* a tick in which a processor, an oven and a bot dock each finished with an
\* item: raw became processed, processed became baked, baked stayed baked
EveryStageChangeSeen ==
    /\ <<PROCESSOR, "raw", "processed">> \in last.ev.stages
    /\ <<OVEN, "processed", "baked">> \in last.ev.stages
    /\ <<BOT_DOCK, "baked", "baked">> \in last.ev.stages

\* a list without its k-th element
Without(seq, k) == [i \in 1..(Len(seq) - 1) |-> IF i < k THEN seq[i] ELSE seq[i + 1]]

\* C13: a baked item at the sink with orders pending: a tagged item takes
\* the oldest pending order with its recipe key and is rejected when there
\* is none; an untagged item takes the oldest order when all pending orders
\* share one recipe key and is rejected otherwise; a rejection removes no
\* order and adds exactly 1 to waste
SinkResolution ==
    \A o \in last.ev.sinks :
        LET keys == RecipeKeysOf(o.pending)
            hits == {i \in 1..Len(keys) : keys[i] = o.recipe_key}
            first == CHOOSE i \in hits : \A j \in hits : i <= j
            takes(k) == o.found /\ o.order = o.pending[k] /\ o.left = Without(o.pending, k) /\ o.waste = 0
            rejected == ~o.found /\ o.left = o.pending /\ o.waste = 1
        IN  /\ o.recipe_key # "" /\ hits # {} => takes(first)
            /\ o.recipe_key # "" /\ hits = {} => rejected
            /\ o.recipe_key = "" /\ (\A i \in 1..Len(keys) : keys[i] = keys[1]) => takes(1)
            /\ o.recipe_key = "" /\ (\E i \in 1..Len(keys) : keys[i] # keys[1]) => rejected

\* a tagged item that took an order behind the oldest one: the oldest
\* pending order has another recipe than the item
TaggedItemTakesLaterOrder ==
    \E o \in last.ev.sinks :
        /\ o.recipe_key # ""
        /\ o.found
        /\ o.pending[1].recipe_key # o.recipe_key
        /\ o.order.recipe_key = o.recipe_key
        /\ Len(o.left) = Len(o.pending) - 1

\* the recipe key of the oldest of the pending recipe keys whose products
\* meet those of the ingredient, "" when there is none
OldestMatching(ingredient_type, pending) ==
    LET matches == {i \in 1..Len(pending) :
                        RecipeProducts(pending[i]) \cap INGREDIENT_TO_PRODUCTS(ingredient_type) # {}}
    IN  IF matches = {} THEN ""
        ELSE pending[CHOOSE i \in matches : \A j \in matches : i <= j]

\* C14: an untagged item that finishes its dwell on an assembly table is
\* tagged with the recipe key of the oldest pending order whose required
\* products (less post-oven toppings) meet the products of the item's
\* ingredient_type; orders that do not match are skipped, and the item
\* stays untagged when no pending order matches
AssemblyTableTagsByIngredient ==
    \A g \in last.ev.tags : g.recipe_key = OldestMatching(g.ingredient_type, g.pending)

\* C15: fulfilling an eat_in order settles it at once: the deliveries list
\* is unchanged, completed and ontime each rise by 1, money and
\* total_revenue rise by the order's reward, and reputation rises by the
\* on-time gain, capped at 100
EatInSettlesAtOnce ==
    \A f \in last.ev.fulfils :
        f.order.channel_key = "eat_in" =>
            /\ f.post.deliveries = f.pre.deliveries
            /\ f.post.completed = f.pre.completed + 1
            /\ f.post.ontime = f.pre.ontime + 1
            /\ f.post.money = f.pre.money + f.order.reward
            /\ f.post.total_revenue = f.pre.total_revenue + f.order.reward
            /\ f.post.reputation = IF f.pre.reputation + REPUTATION_GAIN_ONTIME > 100000
                                   THEN 100000 ELSE f.pre.reputation + REPUTATION_GAIN_ONTIME

\* an eat-in order fulfilled while the reputation was within one gain of 100
EatInOrderFulfilledAtTheCap ==
    \E f \in last.ev.fulfils :
        /\ f.order.channel_key = "eat_in"
        /\ f.order.reward > 0
        /\ f.pre.reputation < 100000
        /\ f.pre.reputation + REPUTATION_GAIN_ONTIME > 100000
        /\ f.post.reputation = 100000

\* C16: a delivery whose remaining time reaches <= 0 in a tick leaves the
\* deliveries and adds exactly 1 to completed; with elapsed <= sla ontime
\* rises by 1, money and total_revenue by the full reward and reputation by
\* the gain (capped at 100); otherwise money and total_revenue rise by
\* int(reward x late multiplier), the multiplier being the late penalty or,
\* with priority_dispatch unlocked, the higher priority value, and
\* reputation falls by the loss (floored at 0)
DeliverySettlement ==
    \A r \in last.ev.settles :
        LET remaining == r.delivery.remaining - r.dt
            elapsed == r.delivery.elapsed + r.dt
            reward == r.delivery.reward
            multiplier == IF r.priority_dispatch THEN PRIORITY_DISPATCH_LATE_MULTIPLIER ELSE LATE_DELIVERY_PENALTY
            late_reward == (reward * multiplier) \div 1000
            up == r.pre.reputation + REPUTATION_GAIN_ONTIME
            down == r.pre.reputation - REPUTATION_LOSS_LATE
        IN  remaining <= 0 =>
                /\ r.post.deliveries = r.pre.deliveries
                /\ r.post.completed = r.pre.completed + 1
                /\ elapsed <= r.delivery.sla =>
                       /\ r.post.ontime = r.pre.ontime + 1
                       /\ r.post.money = r.pre.money + reward
                       /\ r.post.total_revenue = r.pre.total_revenue + reward
                       /\ r.post.reputation = IF up > 100000 THEN 100000 ELSE up
                /\ elapsed > r.delivery.sla =>
                       /\ r.post.ontime = r.pre.ontime
                       /\ r.post.money = r.pre.money + late_reward
                       /\ r.post.total_revenue = r.pre.total_revenue + late_reward
                       /\ r.post.reputation = IF down < 0 THEN 0 ELSE down

\* a late delivery settled with priority_dispatch unlocked: 11 paid of a
\* reward of 15, and the loss taken from the reputation
LateDeliveryPaidAtPriorityRate ==
    \E r \in last.ev.settles :
        /\ r.priority_dispatch
        /\ r.delivery.remaining - r.dt <= 0
        /\ r.delivery.elapsed + r.dt > r.delivery.sla
        /\ r.delivery.reward = 15
        /\ r.post.money = r.pre.money + 11
        /\ r.post.reputation = r.pre.reputation - REPUTATION_LOSS_LATE

\* C17: when tick takes a pending order's remaining_sla to <= 0 the order
\* leaves the pending list and no delivery is made of it, and the order is
\* charged for: money falls and reputation falls
ExpiredOrderIsCharged ==
    \A e \in last.ev.expiries :
        LET aged == [i \in 1..Len(e.orders) |-> [e.orders[i] EXCEPT !.remaining_sla = @ - e.dt]]
            missed == {i \in 1..Len(aged) : aged[i].remaining_sla <= 0}
        IN  /\ e.left = SelectSeq(aged, LAMBDA order : order.remaining_sla > 0)
            /\ e.post.deliveries = e.pre.deliveries
            /\ e.post.completed = e.pre.completed
            /\ (missed # {} /\ e.pre.money > 0 /\ e.pre.reputation > 0) =>
                   /\ e.post.money < e.pre.money
                   /\ e.post.reputation < e.pre.reputation

\* the pending orders of the engine's active channel
PendingOnChannel(s) == Len(SelectSeq(s.orders, LAMBDA order : order.channel_key = s.order_channel))

\* C18: neither _spawn_order nor the spawn step of tick creates an order
\* when the active channel has max_active_orders pending orders already
SpawnRespectsChannelCap ==
    (/\ last.cmd.op \in {"_spawn_order", "tick"}
     /\ PendingOnChannel(last.pre) >= ORDER_CHANNELS(last.pre.order_channel).max_active_orders)
        => last.ev.created = 0

StrategyNeedsItsResearch ==
    LET strategy == last.cmd.key
        required_research == COMMERCIALS(strategy).required_research
    IN  (/\ last.cmd.op = "set_commercial_strategy"
         /\ strategy \in CommercialKeys
         /\ required_research # "") =>
            IF Unlocked(last.pre.tech_tree, required_research)
            THEN last.pre.money >= COMMERCIALS(strategy).activation_cost =>
                     (last.ret = "True" /\ sim.commercial_strategy = strategy)
            ELSE /\ last.ret = "False"
                 /\ sim.commercial_strategy = last.pre.commercial_strategy
                 /\ sim.money = last.pre.money

\* C21: when a tick's resolver unlocks the research focus, no other
\* technology becomes unlocked in that tick and research_focus is ""
FocusUnlockIsExclusive ==
    LET focus == last.pre.research_focus
    IN  (/\ last.cmd.op = "tick"
         /\ focus # ""
         /\ ~Unlocked(last.pre.tech_tree, focus)
         /\ Unlocked(sim.tech_tree, focus)) =>
            /\ \A tech \in Techs \ {focus} :
                   Unlocked(sim.tech_tree, tech) = Unlocked(last.pre.tech_tree, tech)
            /\ sim.research_focus = ""

\* a tick unlocked the focus while another technology, affordable and with
\* its prerequisites met, stayed locked
FocusUnlockedAloneAmongAffordable ==
    /\ last.cmd.op = "tick"
    /\ last.pre.research_focus # ""
    /\ ~Unlocked(last.pre.tech_tree, last.pre.research_focus)
    /\ Unlocked(sim.tech_tree, last.pre.research_focus)
    /\ \E tech \in Techs \ {last.pre.research_focus} :
           /\ AutoUnlocks(last.pre.tech_tree, sim.research_points, tech)
           /\ ~Unlocked(sim.tech_tree, tech)

\* C22: a technology unlocked before a call on the engine is unlocked after
\* it, whatever the call: a flag of tech_tree never goes back to false
UnlockedStaysUnlocked ==
    \A tech \in Techs : Unlocked(last.pre.tech_tree, tech) => Unlocked(sim.tech_tree, tech)

\* a tick that unlocked a technology on an engine that had others unlocked
TickUnlockedOneMore ==
    /\ last.cmd.op = "tick"
    /\ \E tech \in Techs : Unlocked(last.pre.tech_tree, tech)
    /\ \E tech \in Techs : ~Unlocked(last.pre.tech_tree, tech) /\ Unlocked(sim.tech_tree, tech)

\* C23: an item whose recipe_key is set keeps it through every iteration of
\* the transport loop, on an assembly table or elsewhere, whatever orders
\* are pending
RecipeKeyKept ==
    \A k \in last.ev.keys : k.before # "" => k.after = k.before

\* a tagged item finished its dwell on an assembly table while the oldest
\* pending order was for another recipe, and kept its tag
TaggedItemPassedAnotherTable ==
    \E k \in last.ev.keys :
        /\ k.kind = ASSEMBLY_TABLE
        /\ k.dwelt
        /\ k.before # ""
        /\ k.pending # <<>>
        /\ k.pending[1] # k.before
        /\ k.after = k.before

\* C24: tick(0) leaves the whole engine as it was: nothing spawned, no
\* technology unlocked, expansion, orders and deliveries where they were,
\* hygiene and the random source untouched
TickZeroChangesNothing ==
    (last.cmd.op = "tick" /\ last.cmd.dt = 0) => sim = last.pre

\* C25: an item that is not baked and finishes its dwell bound for the sink
\* is taken out of the live items and counted as waste, and no item that is
\* not baked stands on a sink cell
SinkRefusesUnbaked ==
    /\ \A m \in last.ev.moves :
           (m.dest = SINK /\ m.stage # "baked") => (~m.live /\ m.waste = 1)
    /\ \A i \in 1..Len(sim.items) :
           TileAt(sim.grid, sim.items[i].x, sim.items[i].y).kind = SINK => sim.items[i].stage = "baked"

\* C26: an item that finishes its dwell on a tile pointing outside the grid
\* does not move: it is live after the tick, on the cell it stood on, and
\* adds nothing to the blocked count
OffGridMoveCancelled ==
    \A m \in last.ev.moves :
        m.dest = "" => (m.live /\ m.cell = m.from /\ m.blocked = 0)

\* C27: a tick that is due to spawn an order on an engine whose active
\* channel asks for more reputation than there is switches order_channel
\* to delivery and logs the switch before it spawns; an active channel that
\* is still unlocked is kept
LockedChannelAutoSwitched ==
    (last.cmd.op = "tick" /\ OrderSpawnDue(last.pre, last.cmd.dt)) =>
        IF order_channel_min_reputation(last.pre.order_channel) > last.pre.reputation
        THEN /\ sim.order_channel = "delivery"
             /\ sim.event_log # last.pre.event_log
             /\ sim.orders # <<>> => sim.orders[Len(sim.orders)].channel_key = "delivery"
        ELSE sim.order_channel = last.pre.order_channel

\* C28: no tick unlocks both a technology and one of its prerequisites: the
\* resolver pass judges prerequisites on the tech state it starts from, so
\* the dependent waits for a later pass
NoPairUnlockedInOnePass ==
    last.cmd.op = "tick" =>
        \A tech \in Techs : \A prereq \in Prerequisites(tech) :
            ~(/\ ~Unlocked(last.pre.tech_tree, tech) /\ Unlocked(sim.tech_tree, tech)
              /\ ~Unlocked(last.pre.tech_tree, prereq) /\ Unlocked(sim.tech_tree, prereq))

\* the second of two ticks on a loaded engine: the first pass unlocked
\* ovens and turbo_oven, and the background pass of the second unlocked
\* precision_cooking
PrecisionCookingUnlockedOnePassLater ==
    /\ last.cmd.op = "tick"
    /\ steps = 2
    /\ last.pre.research_focus = ""
    /\ Unlocked(last.pre.tech_tree, "ovens")
    /\ Unlocked(last.pre.tech_tree, "turbo_oven")
    /\ ~Unlocked(last.pre.tech_tree, "precision_cooking")
    /\ Unlocked(sim.tech_tree, "precision_cooking")

\* the destination of the move m blocks it: a cell of the grid, not the
\* sink taking a baked item, that is of the empty kind or held by an item
\* moved earlier in the pass
BlockingDestination(m) ==
    /\ m.dest # ""
    /\ ~(m.dest = SINK /\ m.stage = "baked")
    /\ m.dest = EMPTY \/ m.held

TransportBeforeCountdown ==
    /\ \A i \in 1..Len(sim.orders) : sim.orders[i].remaining_sla > 0
    /\ last.cmd.op = "tick" =>
           /\ \A f \in last.ev.fulfils :
                  /\ f.order.remaining_sla > 0
                  /\ \/ \E i \in 1..Len(last.pre.orders) : last.pre.orders[i] = f.order
                     \/ f.order.remaining_sla = f.order.total_sla
           /\ \A e \in last.ev.expiries :
                  /\ sim.orders = e.left
                  /\ \A i \in 1..Len(e.orders) :
                         e.orders[i].remaining_sla - e.dt <= 0 =>
                             \A j \in 1..Len(sim.orders) :
                                 sim.orders[j] # [e.orders[i] EXCEPT !.remaining_sla = @ - e.dt]

\* an order with no more SLA left than the tick is long was matched by an
\* item that reached the sink in that tick
OrderMatchedInItsLastTick ==
    /\ last.cmd.op = "tick"
    /\ \E f \in last.ev.fulfils :
           /\ f.order.remaining_sla > 0
           /\ f.order.remaining_sla <= last.cmd.dt
           /\ \E i \in 1..Len(last.pre.orders) : last.pre.orders[i] = f.order

\* C31: the research points a tick's transport pass credits count in the
\* resolver of the same tick: with no focus set, a locked technology whose
\* prerequisites are unlocked and whose cost the points have reached by the
\* end of the tick is unlocked by the end of the tick
YieldSeenBySameTickResolver ==
    (last.cmd.op = "tick" /\ last.pre.research_focus = "") =>
        \A tech \in Techs :
            (/\ ~Unlocked(last.pre.tech_tree, tech)
             /\ \A prereq \in Prerequisites(tech) : Unlocked(last.pre.tech_tree, prereq)
             /\ sim.research_points >= TECH_UNLOCK_COSTS(tech))
                => Unlocked(sim.tech_tree, tech)

\* a tick whose transport pass took the points from below the cost of a
\* technology to it or above, and which unlocked the technology
UnlockedOnTheYieldOfTheTick ==
    /\ last.cmd.op = "tick"
    /\ last.pre.research_focus = ""
    /\ \E tech \in Techs :
           /\ last.pre.research_points < TECH_UNLOCK_COSTS(tech)
           /\ sim.research_points >= TECH_UNLOCK_COSTS(tech)
           /\ \E st \in last.ev.stages : st[2] # st[3]
           /\ ~Unlocked(last.pre.tech_tree, tech)
           /\ Unlocked(sim.tech_tree, tech)

\* C32: a focus unlock that succeeds takes the cost of the technology from
\* research_points, in try_unlock_research_focus and in a tick whose
\* transport pass credits nothing
FocusUnlockConsumesPoints ==
    LET focus == last.pre.research_focus
    IN  /\ (last.cmd.op = "try_unlock_research_focus" /\ last.ret = "True") =>
               sim.research_points = last.pre.research_points - TECH_UNLOCK_COSTS(focus)
        /\ (/\ last.cmd.op = "tick"
            /\ focus # ""
            /\ ~Unlocked(last.pre.tech_tree, focus)
            /\ Unlocked(sim.tech_tree, focus)
            /\ \A st \in last.ev.stages : st[2] = st[3]) =>
               sim.research_points = last.pre.research_points - TECH_UNLOCK_COSTS(focus)

\* C33: the boost a fulfilling item carries shortens only the delivery made
\* for the order it fulfilled: the deliveries that were in flight before
\* stay as they were, and an eat-in fulfilment leaves the list as it was
BoostOnlyOnOwnDelivery ==
    \A f \in last.ev.fulfils :
        f.boost > 0 =>
            LET n == Len(f.pre.deliveries)
            IN  /\ SubSeq(f.boosted, 1, n) = f.pre.deliveries
                /\ IF f.order.channel_key = "eat_in"
                   THEN Len(f.boosted) = n
                   ELSE /\ Len(f.boosted) = n + 1
                        /\ f.boosted[n + 1].remaining = Max(1500, f.post.deliveries[n + 1].remaining - f.boost)
                        /\ f.boosted[n + 1].duration = f.boosted[n + 1].remaining

\* a boosted item fulfilled an eat-in order while deliveries were in flight
BoostedItemFulfilledEatIn ==
    \E f \in last.ev.fulfils :
        f.boost > 0 /\ f.order.channel_key = "eat_in" /\ Len(f.pre.deliveries) > 0

\* C34: whatever the save lacks or holds that this build does not know,
\* the loaded engine has a whole grid (the default world when the saved
\* one is unusable), a tech tree over the catalog's technologies, and
\* orders and deliveries for recipes and channels of the catalogs
LoadedEngineIsWhole ==
    last.cmd.op = "from_dict" =>
        /\ DOMAIN sim.grid = 0..(GRID_H - 1)
        /\ \A y \in DOMAIN sim.grid : DOMAIN sim.grid[y] = 0..(GRID_W - 1)
        /\ ("grid" \notin DOMAIN last.cmd.data \/ ~UsableGrid(last.cmd.data.grid)) =>
               sim.grid = place_static_world
        /\ DOMAIN sim.tech_tree = Techs
        /\ \A i \in 1..Len(sim.orders) :
               sim.orders[i].recipe_key \in RecipeKeys /\ sim.orders[i].channel_key \in ChannelKeys
        /\ \A i \in 1..Len(sim.deliveries) : sim.deliveries[i].recipe_key \in RecipeKeys

\* a save with a grid that is not a list, an unknown technology, and an
\* order and a delivery for an unknown recipe was loaded
DamagedSaveLoaded ==
    /\ last.cmd.op = "from_dict"
    /\ {"grid", "tech_tree", "orders", "deliveries"} \subseteq DOMAIN last.cmd.data
    /\ ~IsList(last.cmd.data.grid)
    /\ "alien_tech" \in DOMAIN last.cmd.data.tech_tree
    /\ last.cmd.data.orders[1].recipe_key \notin RecipeKeys
    /\ last.cmd.data.orders[1].channel_key \notin ChannelKeys
    /\ "recipe_key" \notin DOMAIN last.cmd.data.orders[2]
    /\ last.cmd.data.deliveries[1].recipe_key \notin RecipeKeys
    /\ Len(sim.orders) = 2 /\ Len(sim.deliveries) = 1

\* C40: every item of an engine from_dict has just built stands on a cell
\* of the grid
LoadedItemsInGrid ==
    last.cmd.op = "from_dict" =>
        \A i \in 1..Len(sim.items) : InGrid(sim.items[i].x, sim.items[i].y)

\* C35: money is the starting money plus all revenue minus all spend, and
\* a call moves money only by what it adds to revenue and to spend
LedgerConservation ==
    /\ sim.money = STARTING_MONEY + sim.total_revenue - sim.total_spend
    /\ sim.total_revenue >= last.pre.total_revenue
    /\ sim.total_spend >= last.pre.total_spend
    /\ sim.money - last.pre.money =
           (sim.total_revenue - last.pre.total_revenue) - (sim.total_spend - last.pre.total_spend)

\* a build paid for by an engine that has earned and spent before
BuiltAfterEarningAndSpending ==
    /\ last.cmd.op = "place_tile"
    /\ last.pre.total_revenue > 0
    /\ last.pre.total_spend > 0
    /\ sim.money < last.pre.money

\* C36: the research focus is empty or a catalog technology that is still
\* locked and has all its prerequisites unlocked, and a refused
\* set_research_focus leaves it as it was
FocusIsAvailableTarget ==
    /\ sim.research_focus # "" =>
           /\ sim.research_focus \in Techs
           /\ ~Unlocked(sim.tech_tree, sim.research_focus)
           /\ \A prereq \in Prerequisites(sim.research_focus) : Unlocked(sim.tech_tree, prereq)
    /\ (last.cmd.op = "set_research_focus" /\ last.ret = "False") =>
           sim.research_focus = last.pre.research_focus

\* a focus was held and set_research_focus refused a technology whose
\* prerequisite is locked
UnmetFocusRefused ==
    /\ last.cmd.op = "set_research_focus"
    /\ last.ret = "False"
    /\ last.cmd.key = "precision_cooking"
    /\ ~Unlocked(last.pre.tech_tree, "turbo_oven")
    /\ last.pre.research_focus # ""
    /\ sim.research_focus = last.pre.research_focus

\* C37: at the end of a tick no two live items stand on the same cell
CellExclusivity ==
    last.cmd.op = "tick" =>
        \A i, j \in 1..Len(sim.items) :
            i # j => ~(sim.items[i].x = sim.items[j].x /\ sim.items[i].y = sim.items[j].y)

\* C38: place_tile leaves the cells that hold a source or a sink the same
\* cells, and the grid has the one source and the one sink of the static
\* world
SourceAndSinkCellsFixed ==
    LET Ends(grid) == {c \in (0..(GRID_W - 1)) \X (0..(GRID_H - 1)) : grid[c[2]][c[1]].kind \in {SOURCE, SINK}}
    IN  /\ last.cmd.op = "place_tile" => Ends(sim.grid) = Ends(last.pre.grid)
        /\ Ends(sim.grid) = Ends(place_static_world)

\* C39: over any catalog the loader returns, an engine whose points are at
\* or above the highest cost has, after enough ticks, every technology of
\* the catalog unlocked
ResearchLiveness ==
    (sim.research_points >= HighestCost(sim.research))
        ~> (\A tech \in KeysOf(sim.research) : Unlocked(sim.tech_tree, tech))

====
